---- MODULE Spec2Model ----
(***************************************************************************)
(* A model of DVIDSparkServices/reconutils/morpho.py:                      *)
(*   - split_disconnected_bodies and its helpers (_split_body_mappings,    *)
(*     contingency_table, row_argmax, reverse_dict, compose_mappings);     *)
(*   - stitch: offset assignment, boundary extraction, pairwise merge      *)
(*     computation, global reconciliation and relabel application.         *)
(* Label volumes are functions from voxel coordinates <<z, y, x>> to       *)
(* naturals; Python dicts are functions with finite domains.               *)
(***************************************************************************)
EXTENDS Integers, Sequences, FiniteSets, TLC

\* State of one call of split_disconnected_bodies
VARIABLES spc,                       \* position in split_disconnected_bodies
          labels_orig,               \* the argument
          labels_consecutive,
          max_consecutive_label,
          orig_to_consecutive,
          labels_split,
          split_to_cons_with_splits,
          cons_with_splits_to_cons,
          labels_new,                \* first component of the result
          new_to_orig                \* second component of the result

split_vars == <<spc, labels_orig, labels_consecutive, max_consecutive_label,
                orig_to_consecutive, labels_split, split_to_cons_with_splits,
                cons_with_splits_to_cons, labels_new, new_to_orig>>

\* State of one call of stitch
VARIABLES tpc,                \* position in stitch
          is_cached,          \* label_chunks.is_cached
          subvolumes,         \* sv_index -> subvolume descriptor (label_chunks, item 0)
          seg_vols,           \* sv_index -> seg_vol (label_chunks, item 1, 0)
          max_ids,            \* sv_index -> max_id (label_chunks, item 1, 1)
          delivery,           \* the order in which collect() returns the chunks
          offsets,            \* the dict offsets
          offset,             \* the running sum of the offset loop
          offset_pos,         \* number of chunks the offset loop has processed
          boundary_arrays,    \* sv_index -> boundary_array returned by extract_boundaries
          subvolume_mappings, \* boundary key -> result of stitcher
          merge_list,         \* the collected merge list
          merger_pos,         \* number of mergers the reconciliation loop has processed
          body1body2,
          body2body1,
          master_merge_list,  \* the broadcast list of (label, representative) pairs
          relabeled           \* sv_index -> new_labels returned by relabel

stitch_vars == <<tpc, is_cached, subvolumes, seg_vols, max_ids, delivery, offsets, offset,
                 offset_pos,
                 boundary_arrays, subvolume_mappings, merge_list, merger_pos,
                 body1body2, body2body1, master_merge_list, relabeled>>

VARIABLES h_pc,       \* position in a direct call of a helper function
          h_vol1,     \* contingency_table: vol1
          h_vol2,     \* contingency_table: vol2
          h_itemsize1, \* vol1.dtype.itemsize
          h_itemsize2, \* vol2.dtype.itemsize
          h_sparse,   \* contingency_table: sparse
          h_table,    \* the table returned by contingency_table
          h_argmax,   \* the array returned by row_argmax
          h_dicts,    \* the dicts given to compose_mappings or reverse_dict
          h_result    \* the dict returned by compose_mappings or reverse_dict

helper_vars == <<h_pc, h_vol1, h_vol2, h_itemsize1, h_itemsize2, h_sparse, h_table, h_argmax, h_dicts, h_result>>

vars == <<split_vars, stitch_vars, helper_vars>>

(***************************************************************************)
(* Bounds of the model.                                                    *)
(***************************************************************************)
\* labels of an input volume are drawn from 0..MaxLabel
MaxLabel == 2
\* extent of the split_disconnected_bodies input volume along x
VolX == 3

\* global labels of the merge lists given to the reconciliation loop: 1..RecLabels
RecLabels == 4
\* greatest length of a merge list given to the reconciliation loop
MaxMergers == 3

\* the max_id of a subvolume given to the offset loop is drawn from 0..MaxId
MaxId == 3

\* greatest length of the neighbor list of a malformed subvolume descriptor
MaxRegions == 2

\* keys and values of the dicts given to compose_mappings and reverse_dict
\* are drawn from 0..MaxKey
MaxKey == 1

\* chunk_size and border given to parallelize_roi: edge of a subvolume box and
\* width of the halo around it
ChunkSize == 1
Border == 1

\* shape (z, y, x) of the volume given to split_disconnected_bodies
SplitShape == <<1, 2, VolX>>

(***************************************************************************)
(* Generic helpers: finite maps, minima and maxima, sorting.               *)
(***************************************************************************)
SetMax(S) == CHOOSE m \in S : \A x \in S : x <= m
SetMin(S) == CHOOSE m \in S : \A x \in S : m <= x

Range(f) == {f[k] : k \in DOMAIN f}
SeqRange(s) == {s[i] : i \in 1..Len(s)}

\* d.update(e): the entries of e replace or extend those of d
DictUpdate(d, e) ==
    [k \in (DOMAIN d) \cup (DOMAIN e) |-> IF k \in DOMAIN e THEN e[k] ELSE d[k]]

\* The empty dict
EmptyDict == [k \in {} |-> 0]

\* d[k] = v on a dict
DictSet(d, k, v) == DictUpdate(d, [j \in {k} |-> v])

\* dict(pairs) for a sequence of <<key, value>> pairs: a later pair replaces
\* an earlier one with the same key
DictFromPairs(pairs) ==
    [k \in {pairs[i][1] : i \in 1..Len(pairs)} |->
        pairs[SetMax({i \in 1..Len(pairs) : pairs[i][1] = k})][2]]

\* the ascending sequence of a finite set of integers (numpy.unique, range)
RECURSIVE SortedSeq(_)
SortedSeq(S) ==
    IF S = {} THEN <<>>
    ELSE LET m == SetMin(S) IN <<m>> \o SortedSeq(S \ {m})

\* zip(a, b): pairs up to the shorter of the two sequences
Zip(a, b) ==
    LET n == IF Len(a) < Len(b) THEN Len(a) ELSE Len(b)
    IN  [i \in 1..n |-> <<a[i], b[i]>>]

\* range(lo, hi) as a sequence
PyRange(lo, hi) == [i \in 1..(IF hi > lo THEN hi - lo ELSE 0) |-> lo + i - 1]

(***************************************************************************)
(* Volumes.                                                                *)
(***************************************************************************)
VoxelsOf(shape) ==
    (0..(shape[1] - 1)) \X (0..(shape[2] - 1)) \X (0..(shape[3] - 1))

\* position of a voxel in the flattened (C order) array
FlatIndex(shape, p) == (p[1] * shape[2] + p[2]) * shape[3] + p[3]

\* direct (face) neighbourhood, the default of labelMultiArrayWithBackground
Adjacent(p, q) ==
    LET dz == IF p[1] > q[1] THEN p[1] - q[1] ELSE q[1] - p[1]
        dy == IF p[2] > q[2] THEN p[2] - q[2] ELSE q[2] - p[2]
        dx == IF p[3] > q[3] THEN p[3] - q[3] ELSE q[3] - p[3]
    IN  dz + dy + dx = 1

\* the voxels connected to the set F through voxels of the same label
RECURSIVE Flood(_, _)
Flood(L, F) ==
    LET G == F \cup {q \in DOMAIN L :
                        \E p \in F : Adjacent(p, q) /\ L[q] = L[p]}
    IN  IF G = F THEN F ELSE Flood(L, G)

\* the connected pieces of a volume: one set of voxels per piece, background
\* (label 0) excluded
Pieces(L) == {Flood(L, {p}) : p \in {q \in DOMAIN L : L[q] # 0}}

\* first voxel of a set of voxels in scan order
FirstIndex(shape, S) == SetMin({FlatIndex(shape, p) : p \in S})

ShapeOf(L) ==
    <<1 + SetMax({p[1] : p \in DOMAIN L}),
      1 + SetMax({p[2] : p \in DOMAIN L}),
      1 + SetMax({p[3] : p \in DOMAIN L})>>

\* vol.reshape(-1): the voxels of a volume as a sequence, in C order
Flatten(L) ==
    LET shape == ShapeOf(L)
    IN  [i \in 1..Cardinality(DOMAIN L) |->
            L[CHOOSE p \in DOMAIN L : FlatIndex(shape, p) = i - 1]]

\* vigra.analysis.applyMapping(labels, mapping): every voxel through the dict
applyMapping(L, mapping) == [p \in DOMAIN L |-> mapping[L[p]]]
applyMappingOk(L, mapping) == Range(L) \subseteq DOMAIN mapping

\* applyMapping with allow_incomplete_mapping=True: a label that is no key stays
applyMappingIncomplete(L, mapping) ==
    [p \in DOMAIN L |-> IF L[p] \in DOMAIN mapping THEN mapping[L[p]] ELSE L[p]]

(***************************************************************************)
(* reverse_dict and compose_mappings.                                      *)
(***************************************************************************)
\* a variant without the assertion
reverse_dict_unchecked(d) == TRUE

\* the assertion of reverse_dict: len(rev) == len(d)
reverse_dict_ok(d) == Cardinality(Range(d)) = Cardinality(DOMAIN d)

reverse_dict(d) == [v \in Range(d) |-> CHOOSE k \in DOMAIN d : d[k] = v]

\* one step of the loop of compose_mappings: {k: BtoC[v] for k, v in AtoB.items()}
compose_ok(AtoB, BtoC) == Range(AtoB) \subseteq DOMAIN BtoC

\* a variant of the step that keeps AtoB
compose_step_kept(AtoB, BtoC) == AtoB

compose_step(AtoB, BtoC) == [k \in DOMAIN AtoB |-> BtoC[AtoB[k]]]

\* compose_mappings(*mappings) for a sequence of dicts: mappings[0] raises
\* IndexError when no mapping is given, BtoC[v] raises KeyError
RECURSIVE compose_mappings_ok(_)
compose_mappings_ok(mappings) ==
    IF Len(mappings) = 0 THEN FALSE
    ELSE IF Len(mappings) = 1 THEN TRUE
    ELSE /\ compose_ok(mappings[1], mappings[2])
         /\ compose_mappings_ok(<<compose_step(mappings[1], mappings[2])>>
                                    \o SubSeq(mappings, 3, Len(mappings)))

RECURSIVE compose_mappings(_)
compose_mappings(mappings) ==
    IF Len(mappings) = 1 THEN mappings[1]
    ELSE compose_mappings(<<compose_step(mappings[1], mappings[2])>>
                              \o SubSeq(mappings, 3, Len(mappings)))

(***************************************************************************)
(* contingency_table (sparse) and row_argmax.                              *)
(***************************************************************************)
\* the 32-bit integer that the 16-bit halves lo and hi of a word stand for
int32_of_halves(lo, hi) ==
    IF hi >= 32768 THEN (hi - 65536) * 65536 + lo ELSE hi * 65536 + lo

RECURSIVE int32_word(_, _)
\* word j of an unsigned integer, as a 32-bit integer; word 0 is the lowest
int32_word(v, j) ==
    IF j = 0 THEN int32_of_halves(v % 65536, (v \div 65536) % 65536)
    ELSE int32_word((v \div 65536) \div 65536, j - 1)

\* whether ".view(numpy.int32)" takes a flat array of so many items: its size
\* in bytes has to be a multiple of 4
view_int32_ok(flat, itemsize) == (Len(flat) * itemsize) % 4 = 0

\* flat.view(numpy.int32) for a flat array of unsigned integers of itemsize
\* bytes each (little-endian): the same bytes read as 32-bit integers, so an
\* 8-byte item gives its low word and then its high word, and items of fewer
\* than 4 bytes are joined
view_int32(flat, itemsize) ==
    IF itemsize = 8
    THEN [n \in 1..(2 * Len(flat)) |-> int32_word(flat[(n + 1) \div 2], (n + 1) % 2)]
    ELSE IF itemsize = 4
    THEN [n \in 1..Len(flat) |-> int32_word(flat[n], 0)]
    ELSE IF itemsize = 2
    THEN [n \in 1..(Len(flat) \div 2) |-> int32_of_halves(flat[2 * n - 1], flat[2 * n])]
    ELSE [n \in 1..(Len(flat) \div 4) |->
             int32_of_halves(flat[4 * n - 3] + 256 * flat[4 * n - 2],
                             flat[4 * n - 1] + 256 * flat[4 * n])]

\* vol.reshape(-1).view(numpy.int32)
flat_int32(vol, itemsize) == view_int32(Flatten(vol), itemsize)

\* whether contingency_table returns a table: both views can be taken, the
\* assertion on their shapes holds, the views are not empty (coo_matrix
\* cannot infer a shape from empty index arrays, vol1.max() raises on an empty
\* array) and they are usable as indices (coo_matrix raises on a negative
\* index; the ndarray takes a negative index from the end of the axis and
\* raises when it is out of bounds)
contingency_table_ok(vol1, itemsize1, vol2, itemsize2, sparse) ==
    /\ view_int32_ok(Flatten(vol1), itemsize1)
    /\ view_int32_ok(Flatten(vol2), itemsize2)
    /\ LET v1 == flat_int32(vol1, itemsize1)
           v2 == flat_int32(vol2, itemsize2)
       IN  /\ Len(v1) = Len(v2)
           /\ Len(v1) > 0
           /\ IF sparse
              THEN \A k \in 1..Len(v1) : v1[k] >= 0 /\ v2[k] >= 0
              ELSE \A k \in 1..Len(v1) :
                      /\ v1[k] >= -(1 + SetMax(SeqRange(v1)))
                      /\ v2[k] >= -(1 + SetMax(SeqRange(v2)))

\* a variant whose duplicates are dropped instead of summed
coo_of_keys_ones(v1, v2, nr, nc, keys) ==
    [shape |-> <<nr, nc>>,
     row   |-> [i \in 1..Len(keys) |-> keys[i] % nr],
     col   |-> [i \in 1..Len(keys) |-> keys[i] \div nr],
     data  |-> [i \in 1..Len(keys) |-> 1]]

\* the coo_matrix with shape <<nr, nc>> whose entries are the label pairs of
\* the flat arrays v1, v2 given by keys (column * nr + row, ascending)
coo_of_keys(v1, v2, nr, nc, keys) ==
    [shape |-> <<nr, nc>>,
     row   |-> [i \in 1..Len(keys) |-> keys[i] % nr],
     col   |-> [i \in 1..Len(keys) |-> keys[i] \div nr],
     data  |-> [i \in 1..Len(keys) |->
                  Cardinality({j \in 1..Len(v1) : v2[j] * nr + v1[j] = keys[i]})]]

\* scipy.sparse.coo_matrix((ones, (v1, v2))) followed by sum_duplicates(), on
\* the flattened volumes: one entry per label pair, its count as data, the
\* entries ordered by column and, within a column, by row
coo_sum_duplicates(v1, v2, nr) ==
    coo_of_keys(v1, v2, nr, 1 + SetMax(SeqRange(v2)),
                SortedSeq({v2[i] * nr + v1[i] : i \in 1..Len(v1)}))

\* contingency_table(vol1, vol2, sparse=True)
contingency_table(vol1, itemsize1, vol2, itemsize2) ==
    LET v1 == flat_int32(vol1, itemsize1)
        v2 == flat_int32(vol2, itemsize2)
    IN  coo_sum_duplicates(v1, v2, 1 + SetMax(SeqRange(v1)))

\* contingency_table(vol1, vol2, sparse=False): the ndarray of shape
\* (vol1.max() + 1, vol2.max() + 1) after numpy.add.at
contingency_table_dense(vol1, itemsize1, vol2, itemsize2) ==
    LET v1 == flat_int32(vol1, itemsize1)
        v2 == flat_int32(vol2, itemsize2)
        nr == 1 + SetMax(SeqRange(v1))
        nc == 1 + SetMax(SeqRange(v2))
    IN  [shape |-> <<nr, nc>>,
         array |-> [ij \in (0..(nr - 1)) \X (0..(nc - 1)) |->
                      Cardinality({k \in 1..Len(v1) :
                                      v1[k] % nr = ij[1] /\ v2[k] % nc = ij[2]})]]

\* the table is an ndarray, not a coo_matrix
IsNdarray(table) == "array" \in DOMAIN table

\* numpy.argmax(table, axis=1): for every row the first column that holds
\* the greatest value of the row
numpy_argmax_rows(table) ==
    [r \in 0..(table.shape[1] - 1) |->
        SetMin({c \in 0..(table.shape[2] - 1) :
                   \A d \in 0..(table.shape[2] - 1) :
                       table.array[<<r, d>>] <= table.array[<<r, c>>]})]

\* the loop of _sparse_row_argmax from entry i on; row_maxcols maps a row to
\* <<greatest element so far, its column>>
RECURSIVE sparse_row_argmax_loop(_, _, _, _, _)
sparse_row_argmax_loop(sparse_cols, sparse_rows, sparse_data, i, row_maxcols) ==
    IF i > Len(sparse_cols) THEN row_maxcols
    ELSE LET col == sparse_cols[i]
             row == sparse_rows[i]
             element == sparse_data[i]
             prev_max == row_maxcols[row][1]
         IN  sparse_row_argmax_loop(sparse_cols, sparse_rows, sparse_data, i + 1,
                 IF element > prev_max
                 THEN [row_maxcols EXCEPT ![row] = <<element, col>>]
                 ELSE row_maxcols)

\* a variant in which the first stored entry of a row wins, whatever its count
RECURSIVE sparse_row_first_loop(_, _, _, _, _)
sparse_row_first_loop(sparse_cols, sparse_rows, sparse_data, i, row_maxcols) ==
    IF i > Len(sparse_cols) THEN row_maxcols
    ELSE sparse_row_first_loop(sparse_cols, sparse_rows, sparse_data, i + 1,
             IF row_maxcols[sparse_rows[i]][1] = 0
             THEN [row_maxcols EXCEPT ![sparse_rows[i]] = <<sparse_data[i], sparse_cols[i]>>]
             ELSE row_maxcols)

sparse_row_argmax_first(sparse_cols, sparse_rows, sparse_data, num_dense_rows) ==
    LET row_maxcols ==
            sparse_row_first_loop(sparse_cols, sparse_rows, sparse_data, 1,
                                  [r \in 0..(num_dense_rows - 1) |-> <<0, 0>>])
    IN  [r \in 0..(num_dense_rows - 1) |-> row_maxcols[r][2]]

\* a variant in which an element as great as the greatest so far also wins
RECURSIVE sparse_row_last_loop(_, _, _, _, _)
sparse_row_last_loop(sparse_cols, sparse_rows, sparse_data, i, row_maxcols) ==
    IF i > Len(sparse_cols) THEN row_maxcols
    ELSE sparse_row_last_loop(sparse_cols, sparse_rows, sparse_data, i + 1,
             IF sparse_data[i] >= row_maxcols[sparse_rows[i]][1]
             THEN [row_maxcols EXCEPT ![sparse_rows[i]] = <<sparse_data[i], sparse_cols[i]>>]
             ELSE row_maxcols)

sparse_row_argmax_last(sparse_cols, sparse_rows, sparse_data, num_dense_rows) ==
    LET row_maxcols ==
            sparse_row_last_loop(sparse_cols, sparse_rows, sparse_data, 1,
                                 [r \in 0..(num_dense_rows - 1) |-> <<0, 0>>])
    IN  [r \in 0..(num_dense_rows - 1) |-> row_maxcols[r][2]]

sparse_row_argmax(sparse_cols, sparse_rows, sparse_data, num_dense_rows) ==
    LET row_maxcols ==
            sparse_row_argmax_loop(sparse_cols, sparse_rows, sparse_data, 1,
                                   [r \in 0..(num_dense_rows - 1) |-> <<0, 0>>])
    IN  [r \in 0..(num_dense_rows - 1) |-> row_maxcols[r][2]]

\* row_argmax(table) on an ndarray or a coo_matrix
row_argmax(table) ==
    IF IsNdarray(table)
    THEN numpy_argmax_rows(table)
    ELSE sparse_row_argmax(table.col, table.row, table.data, table.shape[1])

\* matrix_argmax(m, axis=1)
matrix_argmax(m) == row_argmax(m)

\* table.tocsr().nonzero(): the <<row, col>> of the nonzero entries, by row and
\* then by column
csr_nonzero(table) ==
    LET nc == table.shape[2]
        keys == SortedSeq({table.row[i] * nc + table.col[i] :
                              i \in {j \in 1..Len(table.data) : table.data[j] # 0}})
    IN  [i \in 1..Len(keys) |-> <<keys[i] \div nc, keys[i] % nc>>]

(***************************************************************************)
(* The vigra calls of split_disconnected_bodies.                           *)
(***************************************************************************)
\* the label map of vigra.analysis.relabelConsecutive(labels, start_label=1):
\* 0 -> 0, and the other labels numbered 1, 2, ... in the order in which they
\* first occur in the array
relabelConsecutiveMap(L) ==
    LET shape == ShapeOf(L)
        present == Range(L) \ {0}
        first(v) == FirstIndex(shape, {p \in DOMAIN L : L[p] = v})
    IN  [v \in present \cup {0} |->
            IF v = 0 THEN 0
            ELSE Cardinality({u \in present : first(u) <= first(v)})]

\* a variant that does no connected-components analysis: one segment per label
labelMultiArrayNoSplit(L) == L

\* vigra.analysis.labelMultiArrayWithBackground(labels): the connected pieces
\* numbered 1, 2, ... in the order of their first voxel, background kept 0
labelMultiArrayWithBackground(L) ==
    LET shape == ShapeOf(L)
        pcs == Pieces(L)
        id(P) == Cardinality({Q \in pcs : FirstIndex(shape, Q) <= FirstIndex(shape, P)})
    IN  [p \in DOMAIN L |-> IF L[p] = 0 THEN 0 ELSE id(Flood(L, {p}))]

(***************************************************************************)
(* _split_body_mappings.                                                   *)
(***************************************************************************)
\* split_to_orig: dict of the reversed nonzero coordinates, plus 0 -> 0
split_to_orig_of(overlap_table_px) ==
    LET nz == csr_nonzero(overlap_table_px)
    IN  DictUpdate(DictFromPairs([i \in 1..Len(nz) |-> <<nz[i][2], nz[i][1]>>]),
                   [k \in {0} |-> 0])

\* nonmain_split_ids: the columns left in the boolean table once the 'main'
\* entry of every row is cleared, ascending
nonmain_split_ids_of(overlap_table_px, main) ==
    LET nz == SeqRange(csr_nonzero(overlap_table_px))
        left == {e \in nz : main[e[1]] # e[2]}
    IN  SortedSeq({e[2] : e \in left})

\* split_to_nonconflicting: main ids keep the 'orig' id, the others get the ids
\* 1 + num_orig_segments .. num_split_segments
split_to_nonconflicting_of(overlap_table_px, main) ==
    LET num_orig_segments == overlap_table_px.shape[1] - 1
        num_split_segments == overlap_table_px.shape[2] - 1
        main_split_ids_to_nonconflicting ==
            DictFromPairs([i \in 1..(1 + num_orig_segments) |-> <<main[i - 1], i - 1>>])
        nonmain_split_ids_to_nonconflicting ==
            DictFromPairs(Zip(nonmain_split_ids_of(overlap_table_px, main),
                              PyRange(1 + num_orig_segments, 1 + num_split_segments)))
    IN  DictUpdate(main_split_ids_to_nonconflicting, nonmain_split_ids_to_nonconflicting)

\* the outcome of a call that raised (a failed assertion, a KeyError)
Raised == [ok |-> FALSE]

\* the tail of _split_body_mappings, from the two dicts on: the assertion on
\* their lengths, reverse_dict, compose_mappings, and the returned pair
split_body_mappings_tail(split_to_orig, split_to_nonconflicting) ==
    IF Cardinality(DOMAIN split_to_nonconflicting) # Cardinality(DOMAIN split_to_orig)
    THEN Raised
    ELSE IF ~reverse_dict_ok(split_to_nonconflicting)
    THEN Raised
    ELSE IF ~compose_mappings_ok(<<reverse_dict(split_to_nonconflicting), split_to_orig>>)
    THEN Raised
    ELSE [ok |-> TRUE,
          split_to_nonconflicting |-> split_to_nonconflicting,
          nonconflicting_to_orig |->
              compose_mappings(<<reverse_dict(split_to_nonconflicting), split_to_orig>>)]

\* _split_body_mappings on an overlap table
split_body_mappings_of(overlap_table_px) ==
    split_body_mappings_tail(
        split_to_orig_of(overlap_table_px),
        split_to_nonconflicting_of(overlap_table_px, matrix_argmax(overlap_table_px)))

\* _split_body_mappings(labels_orig, labels_split), for the uint32 volumes
\* that split_disconnected_bodies passes
split_body_mappings(vol_orig, vol_split) ==
    IF ~contingency_table_ok(vol_orig, 4, vol_split, 4, TRUE) THEN Raised
    ELSE split_body_mappings_of(contingency_table(vol_orig, 4, vol_split, 4))

(***************************************************************************)
(* split_disconnected_bodies, after the vigra calls.                       *)
(***************************************************************************)
\* a variant whose new labels start at 2 + max_orig instead of 1 + max_orig
cons_with_splits_to_orig_with_splits_skip(o2c, max_cons, s2cws) ==
    LET max_orig == SetMax(DOMAIN o2c)
        num_splits == Cardinality(DOMAIN s2cws) - max_cons - 1
    IN  DictUpdate(reverse_dict(o2c),
                   DictFromPairs(Zip(PyRange(1 + max_cons, 1 + max_cons + num_splits),
                                     PyRange(2 + max_orig, 2 + max_orig + num_splits))))

\* cons_with_splits_to_orig_with_splits
cons_with_splits_to_orig_with_splits_of(o2c, max_cons, s2cws) ==
    LET max_orig == SetMax(DOMAIN o2c)
        num_main_segments == max_cons
        num_splits == Cardinality(DOMAIN s2cws) - num_main_segments - 1
    IN  DictUpdate(reverse_dict(o2c),
                   DictFromPairs(Zip(PyRange(1 + max_cons, 1 + max_cons + num_splits),
                                     PyRange(1 + max_orig, 1 + max_orig + num_splits))))

\* a variant that stops the chain at the consecutive labels (cons_to_orig left out)
orig_with_splits_to_cons_only(o2c, max_cons, s2cws, cws2c) ==
    compose_mappings(<<reverse_dict(cons_with_splits_to_orig_with_splits_of(o2c, max_cons, s2cws)),
                       cws2c>>)

\* orig_with_splits_to_orig: origWithSplits -> consWithSplits -> cons -> orig
orig_with_splits_to_orig_of(o2c, max_cons, s2cws, cws2c) ==
    compose_mappings(<<reverse_dict(cons_with_splits_to_orig_with_splits_of(o2c, max_cons, s2cws)),
                       cws2c,
                       reverse_dict(o2c)>>)

\* a variant without the update of 2017-02-16: only the keys above max_orig
new_to_orig_minimal_only(max_orig, orig_with_splits_to_orig) ==
    [k \in {j \in DOMAIN orig_with_splits_to_orig : j > max_orig} |->
        orig_with_splits_to_orig[k]]

\* a variant whose filter keeps k >= max_orig instead of k > max_orig
new_to_orig_off_by_one(max_orig, orig_with_splits_to_orig) ==
    LET minimal == [k \in {j \in DOMAIN orig_with_splits_to_orig : j >= max_orig} |->
                        orig_with_splits_to_orig[k]]
        split_labels == Range(minimal)
    IN  DictUpdate(minimal,
                   [k \in {j \in DOMAIN orig_with_splits_to_orig :
                              orig_with_splits_to_orig[j] \in split_labels} |->
                        orig_with_splits_to_orig[k]])

\* the final reverse mapping: the entries with a key above max_orig, and every
\* entry whose value is the value of one of those
new_to_orig_of(max_orig, orig_with_splits_to_orig) ==
    LET minimal == [k \in {j \in DOMAIN orig_with_splits_to_orig : j > max_orig} |->
                        orig_with_splits_to_orig[k]]
        split_labels == Range(minimal)
    IN  DictUpdate(minimal,
                   [k \in {j \in DOMAIN orig_with_splits_to_orig :
                              orig_with_splits_to_orig[j] \in split_labels} |->
                        orig_with_splits_to_orig[k]])

\* split_disconnected_bodies from "Combine" to the return statement
split_combine(o2c, max_cons, L_split, s2cws, cws2c) ==
    IF ~reverse_dict_ok(o2c) THEN Raised
    ELSE IF ~compose_mappings_ok(<<s2cws,
                 cons_with_splits_to_orig_with_splits_of(o2c, max_cons, s2cws)>>)
    THEN Raised
    ELSE IF ~applyMappingOk(L_split, compose_mappings(<<s2cws,
                 cons_with_splits_to_orig_with_splits_of(o2c, max_cons, s2cws)>>))
    THEN Raised
    ELSE IF ~reverse_dict_ok(cons_with_splits_to_orig_with_splits_of(o2c, max_cons, s2cws))
    THEN Raised
    ELSE IF ~compose_mappings_ok(
                 <<reverse_dict(cons_with_splits_to_orig_with_splits_of(o2c, max_cons, s2cws)),
                   cws2c, reverse_dict(o2c)>>)
    THEN Raised
    ELSE [ok |-> TRUE,
          labels_new |->
              applyMapping(L_split, compose_mappings(<<s2cws,
                  cons_with_splits_to_orig_with_splits_of(o2c, max_cons, s2cws)>>)),
          new_to_orig |->
              new_to_orig_of(SetMax(DOMAIN o2c),
                             orig_with_splits_to_orig_of(o2c, max_cons, s2cws, cws2c))]

(***************************************************************************)
(* split_disconnected_bodies as a sequence of steps.                       *)
(***************************************************************************)
SplitVolumes == [VoxelsOf(SplitShape) -> 0..MaxLabel]

\* no helper function is called directly
HelperIdle ==
    /\ h_pc = "idle"
    /\ h_vol1 = EmptyDict
    /\ h_vol2 = EmptyDict
    /\ h_itemsize1 = 4
    /\ h_itemsize2 = 4
    /\ h_sparse = TRUE
    /\ h_table = EmptyDict
    /\ h_argmax = EmptyDict
    /\ h_dicts = <<>>
    /\ h_result = EmptyDict

\* no call of stitch is in progress
StitchIdle ==
    /\ tpc = "idle"
    /\ is_cached = TRUE
    /\ offset_pos = 0
    /\ subvolumes = EmptyDict
    /\ seg_vols = EmptyDict
    /\ max_ids = EmptyDict
    /\ delivery = <<>>
    /\ offsets = EmptyDict
    /\ offset = 0
    /\ boundary_arrays = EmptyDict
    /\ subvolume_mappings = EmptyDict
    /\ merge_list = <<>>
    /\ merger_pos = 0
    /\ body1body2 = EmptyDict
    /\ body2body1 = EmptyDict
    /\ master_merge_list = {}
    /\ relabeled = EmptyDict

SplitInit ==
    /\ HelperIdle
    /\ StitchIdle
    /\ spc = "start"
    /\ labels_orig \in SplitVolumes
    /\ labels_consecutive = EmptyDict
    /\ max_consecutive_label = 0
    /\ orig_to_consecutive = EmptyDict
    /\ labels_split = EmptyDict
    /\ split_to_cons_with_splits = EmptyDict
    /\ cons_with_splits_to_cons = EmptyDict
    /\ labels_new = EmptyDict
    /\ new_to_orig = EmptyDict

\* labels_consecutive, max_consecutive_label, orig_to_consecutive =
\*     vigra.analysis.relabelConsecutive(labels_orig, start_label=1, ...)
RelabelConsecutive ==
    /\ spc = "start"
    /\ orig_to_consecutive' = relabelConsecutiveMap(labels_orig)
    /\ labels_consecutive' = applyMapping(labels_orig, relabelConsecutiveMap(labels_orig))
    /\ max_consecutive_label' = Cardinality(Range(labels_orig) \ {0})
    /\ spc' = "relabeled"
    /\ UNCHANGED <<labels_orig, labels_split, split_to_cons_with_splits,
                   cons_with_splits_to_cons, labels_new, new_to_orig>>
    /\ UNCHANGED stitch_vars
    /\ UNCHANGED helper_vars

\* labels_split = vigra.analysis.labelMultiArrayWithBackground(labels_consecutive)
LabelComponents ==
    /\ spc = "relabeled"
    /\ labels_split' = labelMultiArrayWithBackground(labels_consecutive)
    /\ spc' = "labeled"
    /\ UNCHANGED <<labels_orig, labels_consecutive, max_consecutive_label,
                   orig_to_consecutive, split_to_cons_with_splits,
                   cons_with_splits_to_cons, labels_new, new_to_orig>>
    /\ UNCHANGED stitch_vars
    /\ UNCHANGED helper_vars

\* split_to_cons_with_splits, cons_with_splits_to_cons =
\*     _split_body_mappings(labels_consecutive, labels_split)
SplitBodyMappings ==
    /\ spc = "labeled"
    /\ \E r \in {split_body_mappings(labels_consecutive, labels_split)} :
          IF r.ok
          THEN /\ split_to_cons_with_splits' = r.split_to_nonconflicting
               /\ cons_with_splits_to_cons' = r.nonconflicting_to_orig
               /\ spc' = "mapped"
          ELSE /\ spc' = "error"
               /\ UNCHANGED <<split_to_cons_with_splits, cons_with_splits_to_cons>>
    /\ UNCHANGED <<labels_orig, labels_consecutive, max_consecutive_label,
                   orig_to_consecutive, labels_split, labels_new, new_to_orig>>
    /\ UNCHANGED stitch_vars
    /\ UNCHANGED helper_vars

\* the rest of split_disconnected_bodies: combine the mappings, remap the
\* image, build new_to_orig and return
CombineAndReturn ==
    /\ spc = "mapped"
    /\ \E r \in {split_combine(orig_to_consecutive, max_consecutive_label, labels_split,
                               split_to_cons_with_splits, cons_with_splits_to_cons)} :
          IF r.ok
          THEN /\ labels_new' = r.labels_new
               /\ new_to_orig' = r.new_to_orig
               /\ spc' = "done"
          ELSE /\ spc' = "error"
               /\ UNCHANGED <<labels_new, new_to_orig>>
    /\ UNCHANGED <<labels_orig, labels_consecutive, max_consecutive_label,
                   orig_to_consecutive, labels_split, split_to_cons_with_splits,
                   cons_with_splits_to_cons>>
    /\ UNCHANGED stitch_vars
    /\ UNCHANGED helper_vars

SplitNext ==
    \/ RelabelConsecutive
    \/ LabelComponents
    \/ SplitBodyMappings
    \/ CombineAndReturn

SpecSplit == SplitInit /\ [][SplitNext]_vars

(***************************************************************************)
(* contingency_table and row_argmax called directly.                       *)
(***************************************************************************)
\* the shapes of the volumes given to contingency_table: two of as many
\* voxels and one of more
TableShapes == {<<1, 1, 2>>, <<1, 2, 1>>, <<1, 1, 3>>}

TableVolumes == UNION {[VoxelsOf(shape) -> 0..MaxLabel] : shape \in TableShapes}

\* the item sizes of the volumes given to contingency_table: a 4-byte and an
\* 8-byte unsigned integer dtype
ItemSizes == {4, 8}

\* no call of split_disconnected_bodies is in progress
SplitIdle ==
    /\ spc = "idle"
    /\ labels_orig = EmptyDict
    /\ labels_consecutive = EmptyDict
    /\ max_consecutive_label = 0
    /\ orig_to_consecutive = EmptyDict
    /\ labels_split = EmptyDict
    /\ split_to_cons_with_splits = EmptyDict
    /\ cons_with_splits_to_cons = EmptyDict
    /\ labels_new = EmptyDict
    /\ new_to_orig = EmptyDict

TableInit ==
    /\ SplitIdle
    /\ StitchIdle
    /\ h_pc = "start"
    /\ h_vol1 \in TableVolumes
    /\ h_vol2 \in TableVolumes
    /\ h_itemsize1 \in ItemSizes
    /\ h_itemsize2 \in ItemSizes
    /\ h_sparse \in BOOLEAN
    /\ h_table = EmptyDict
    /\ h_argmax = EmptyDict
    /\ h_dicts = <<>>
    /\ h_result = EmptyDict

\* table = contingency_table(vol1, vol2, sparse)
ContingencyTable ==
    /\ h_pc = "start"
    /\ IF contingency_table_ok(h_vol1, h_itemsize1, h_vol2, h_itemsize2, h_sparse)
       THEN /\ h_table' = IF h_sparse
                          THEN contingency_table(h_vol1, h_itemsize1, h_vol2, h_itemsize2)
                          ELSE contingency_table_dense(h_vol1, h_itemsize1,
                                                       h_vol2, h_itemsize2)
            /\ h_pc' = "table"
       ELSE /\ h_pc' = "error"
            /\ UNCHANGED h_table
    /\ UNCHANGED <<h_vol1, h_vol2, h_itemsize1, h_itemsize2, h_sparse, h_argmax, h_dicts, h_result>>
    /\ UNCHANGED split_vars
    /\ UNCHANGED stitch_vars

\* row_argmax(table)
RowArgmax ==
    /\ h_pc = "table"
    /\ h_argmax' = row_argmax(h_table)
    /\ h_pc' = "argmax"
    /\ UNCHANGED <<h_vol1, h_vol2, h_itemsize1, h_itemsize2, h_sparse, h_table, h_dicts, h_result>>
    /\ UNCHANGED split_vars
    /\ UNCHANGED stitch_vars

TableNext ==
    \/ ContingencyTable
    \/ RowArgmax

SpecTable == TableInit /\ [][TableNext]_vars

(***************************************************************************)
(* row_argmax called directly on a table, or from within                   *)
(* split_disconnected_bodies.                                              *)
(***************************************************************************)
ArgmaxInit == TableInit \/ SplitInit

ArgmaxNext == TableNext \/ SplitNext

SpecArgmax == ArgmaxInit /\ [][ArgmaxNext]_vars

(***************************************************************************)
(* row_argmax called on a coo_matrix given by its stored entries, in any   *)
(* order of storage.                                                       *)
(***************************************************************************)
CooRows == 2
CooCols == 3
MaxEntries == 2
MaxCount == 2

\* the entries <<row, col, data>> a matrix of the bounded shape can store
CooEntries == (0..(CooRows - 1)) \X (0..(CooCols - 1)) \X (1..MaxCount)

\* scipy.sparse.coo_matrix((data, (row, col)), shape): the entries are kept
\* in the order given
coo_matrix(entries) ==
    [shape |-> <<CooRows, CooCols>>,
     row   |-> [i \in 1..Len(entries) |-> entries[i][1]],
     col   |-> [i \in 1..Len(entries) |-> entries[i][2]],
     data  |-> [i \in 1..Len(entries) |-> entries[i][3]]]

CooInit ==
    /\ SplitIdle
    /\ StitchIdle
    /\ h_pc = "table"
    /\ h_vol1 = EmptyDict
    /\ h_vol2 = EmptyDict
    /\ h_itemsize1 = 4
    /\ h_itemsize2 = 4
    /\ h_sparse = TRUE
    /\ \E n \in 0..MaxEntries : \E entries \in [1..n -> CooEntries] :
          h_table = coo_matrix(entries)
    /\ h_argmax = EmptyDict
    /\ h_dicts = <<>>
    /\ h_result = EmptyDict

CooNext == RowArgmax

SpecCoo == CooInit /\ [][CooNext]_vars

(***************************************************************************)
(* compose_mappings and reverse_dict called directly.                      *)
(***************************************************************************)
\* the dicts with keys and values in 0..MaxKey
Dicts == UNION {[K -> 0..MaxKey] : K \in SUBSET (0..MaxKey)}

\* the numbers of mappings given to compose_mappings
ChainLengths == {0, 1, 2, 3}

DictsInit ==
    /\ SplitIdle
    /\ StitchIdle
    /\ h_vol1 = EmptyDict
    /\ h_vol2 = EmptyDict
    /\ h_itemsize1 = 4
    /\ h_itemsize2 = 4
    /\ h_sparse = TRUE
    /\ h_table = EmptyDict
    /\ h_argmax = EmptyDict
    /\ h_result = EmptyDict
    /\ \/ /\ h_pc = "compose"
          /\ h_dicts \in UNION {[1..n -> Dicts] : n \in ChainLengths}
       \/ /\ h_pc = "reverse"
          /\ h_dicts \in [1..1 -> Dicts]

\* compose_mappings(*h_dicts)
ComposeMappings ==
    /\ h_pc = "compose"
    /\ IF compose_mappings_ok(h_dicts)
       THEN /\ h_result' = compose_mappings(h_dicts)
            /\ h_pc' = "composed"
       ELSE /\ h_pc' = "compose_raised"
            /\ UNCHANGED h_result
    /\ UNCHANGED <<h_vol1, h_vol2, h_itemsize1, h_itemsize2, h_sparse, h_table, h_argmax, h_dicts>>
    /\ UNCHANGED split_vars
    /\ UNCHANGED stitch_vars

\* reverse_dict(h_dicts[1])
ReverseDict ==
    /\ h_pc = "reverse"
    /\ IF reverse_dict_ok(h_dicts[1])
       THEN /\ h_result' = reverse_dict(h_dicts[1])
            /\ h_pc' = "reversed"
       ELSE /\ h_pc' = "reverse_raised"
            /\ UNCHANGED h_result
    /\ UNCHANGED <<h_vol1, h_vol2, h_itemsize1, h_itemsize2, h_sparse, h_table, h_argmax, h_dicts>>
    /\ UNCHANGED split_vars
    /\ UNCHANGED stitch_vars

\* reverse_dict of the dict that reverse_dict returned
ReverseBack ==
    /\ h_pc = "reversed"
    /\ IF reverse_dict_ok(h_result)
       THEN /\ h_result' = reverse_dict(h_result)
            /\ h_pc' = "restored"
       ELSE /\ h_pc' = "reverse_raised"
            /\ UNCHANGED h_result
    /\ UNCHANGED <<h_vol1, h_vol2, h_itemsize1, h_itemsize2, h_sparse, h_table, h_argmax, h_dicts>>
    /\ UNCHANGED split_vars
    /\ UNCHANGED stitch_vars

DictsNext ==
    \/ ComposeMappings
    \/ ReverseDict
    \/ ReverseBack

SpecDicts == DictsInit /\ [][DictsNext]_vars

(***************************************************************************)
(* Arrays with an explicit shape (a crop can be empty), and Python slices. *)
(***************************************************************************)
Max2(a, b) == IF a > b THEN a ELSE b
Min2(a, b) == IF a < b THEN a ELSE b

\* the indices selected by the slice [a:b] of an axis of length n
SliceLo(a, n) == IF a < 0 THEN Max2(a + n, 0) ELSE Min2(a, n)
SliceLen(a, b, n) == Max2(SliceLo(b, n) - SliceLo(a, n), 0)

\* arr[zr[1]:zr[2], yr[1]:yr[2], xr[1]:xr[2]] of an array [shape, data]
Crop(arr, zr, yr, xr) ==
    LET shape == <<SliceLen(zr[1], zr[2], arr.shape[1]),
                   SliceLen(yr[1], yr[2], arr.shape[2]),
                   SliceLen(xr[1], xr[2], arr.shape[3])>>
    IN  [shape |-> shape,
         data  |-> [p \in VoxelsOf(shape) |->
                       arr.data[<<SliceLo(zr[1], arr.shape[1]) + p[1],
                                  SliceLo(yr[1], arr.shape[2]) + p[2],
                                  SliceLo(xr[1], arr.shape[3]) + p[3]>>]]]

\* numpy.unique(arr) as a set
Unique(arr) == Range(arr.data)

(***************************************************************************)
(* stitch: the subvolumes.                                                 *)
(***************************************************************************)
\* the subvolume indices of the partition
SvIndices == {0, 1, 2}

\* the box of the subvolume at place k of a row of chunks along x
BoxAt(k) ==
    [x1 |-> k * ChunkSize, x2 |-> (k + 1) * ChunkSize,
     y1 |-> 0, y2 |-> ChunkSize,
     z1 |-> 0, z2 |-> ChunkSize]

\* Subvolume.touches: two ranges of one axis meet end to end
touches(p1, p2, np1, np2) == p1 = np2 \/ p2 = np1

\* the boxes share a face across x
FaceNeighbors(b1, b2) ==
    /\ touches(b1.x1, b1.x2, b2.x1, b2.x2)
    /\ b1.y1 = b2.y1 /\ b1.y2 = b2.y2
    /\ b1.z1 = b2.z1 /\ b1.z2 = b2.z2

\* local_regions as recorded by the partitioning step: (index, box) of every
\* neighbor, by ascending index
LocalRegionsOf(i, place) ==
    LET nb == SortedSeq({j \in DOMAIN place \ {i} :
                            FaceNeighbors(BoxAt(place[i]), BoxAt(place[j]))})
    IN  [n \in 1..Len(nb) |-> <<nb[n], BoxAt(place[nb[n]])>>]

\* the subvolume descriptors of a row of chunks, place[i] being the place of
\* subvolume i in the row
SubvolumesOf(place) ==
    [i \in DOMAIN place |->
        [sv_index |-> i, box |-> BoxAt(place[i]), border |-> Border,
         local_regions |-> LocalRegionsOf(i, place)]]

\* shape (z, y, x) of the label volume of a subvolume: its box and its halo
SegShape(sv) ==
    <<sv.box.z2 - sv.box.z1 + 2 * sv.border,
      sv.box.y2 - sv.box.y1 + 2 * sv.border,
      sv.box.x2 - sv.box.x1 + 2 * sv.border>>

\* the greatest label of a label volume
VolMax(arr) == SetMax(Unique(arr) \cup {0})

(***************************************************************************)
(* stitch: offset assignment.                                              *)
(***************************************************************************)
\* a variant of the loop body that does not advance the running offset
offset_step_stuck(offs, off, sv_index, max_id) == <<DictSet(offs, sv_index, off), off>>

\* a variant of the loop body that advances the running offset first
offset_step_early(offs, off, sv_index, max_id) ==
    <<DictSet(offs, sv_index, off + max_id), off + max_id>>

\* a variant of the loop body that steps by at least one
offset_step_padded(offs, off, sv_index, max_id) ==
    <<DictSet(offs, sv_index, off), off + Max2(max_id, 1)>>

\* the body of "for subvolume, max_id in zip(subvolumes, max_ids)"
offset_step(offs, off, sv_index, max_id) ==
    <<DictSet(offs, sv_index, off), off + max_id>>

\* assert label_chunks.is_cached
AssertCached ==
    /\ tpc = "entry"
    /\ tpc' = IF is_cached THEN "offsets" ELSE "error"
    /\ UNCHANGED <<subvolumes, seg_vols, max_ids, delivery, offsets, offset,
                   boundary_arrays, subvolume_mappings, merge_list, merger_pos,
                   body1body2, body2body1, master_merge_list, relabeled>>
    /\ UNCHANGED <<is_cached, offset_pos>>
    /\ UNCHANGED split_vars
    /\ UNCHANGED helper_vars

\* one iteration of "for subvolume, max_id in zip(subvolumes, max_ids)"
AssignOffset ==
    /\ tpc = "offsets"
    /\ offset_pos < Len(delivery)
    /\ \E sv \in {delivery[offset_pos + 1]} :
       \E r \in {offset_step(offsets, offset, subvolumes[sv].sv_index, max_ids[sv])} :
          /\ offsets' = r[1]
          /\ offset' = r[2]
    /\ offset_pos' = offset_pos + 1
    /\ UNCHANGED <<tpc, subvolumes, seg_vols, max_ids, delivery,
                   boundary_arrays, subvolume_mappings, merge_list, merger_pos,
                   body1body2, body2body1, master_merge_list, relabeled>>
    /\ UNCHANGED is_cached
    /\ UNCHANGED split_vars
    /\ UNCHANGED helper_vars

\* subvolume_offsets = sc.broadcast(offsets)
BroadcastOffsets ==
    /\ tpc = "offsets"
    /\ offset_pos = Len(delivery)
    /\ tpc' = "extract"
    /\ UNCHANGED <<subvolumes, seg_vols, max_ids, delivery, offsets, offset,
                   boundary_arrays, subvolume_mappings, merge_list, merger_pos,
                   body1body2, body2body1, master_merge_list, relabeled>>
    /\ UNCHANGED <<is_cached, offset_pos>>
    /\ UNCHANGED split_vars
    /\ UNCHANGED helper_vars

(***************************************************************************)
(* stitch: extract_boundaries.                                             *)
(***************************************************************************)
\* the assertions of intersects
intersects_ok(pt1, pt2, pt1_2, pt2_2) == pt1 <= pt2 /\ pt1_2 <= pt2_2

\* intersects: the overlap of two ranges, in the coordinates of each
intersects(pt1, pt2, pt1_2, pt2_2) ==
    LET val1 == Max2(pt1, pt1_2)
        val2 == Min2(pt2, pt2_2)
        size == val2 - val1
        npt1 == val1 - pt1
        npt1_2 == val1 - pt1_2
    IN  <<npt1, npt1 + size, npt1_2, npt1_2 + size>>

\* a variant that keeps the index of the task first
boundary_key_own_first(key1, key2) == <<key1, key2>>

\* the key of a boundary pair, smaller index first
boundary_key(key1, key2) == IF key2 < key1 THEN <<key2, key1>> ELSE <<key1, key2>>

\* the entry extract_boundaries appends for one partner
boundary_entry(subvolume, labels, partner) ==
    LET box2 == partner[2]
        ox == intersects(subvolume.box.x1 - subvolume.border,
                         subvolume.box.x2 + subvolume.border,
                         box2.x1 - subvolume.border, box2.x2 + subvolume.border)
        oy == intersects(subvolume.box.y1 - subvolume.border,
                         subvolume.box.y2 + subvolume.border,
                         box2.y1 - subvolume.border, box2.y2 + subvolume.border)
        oz == intersects(subvolume.box.z1 - subvolume.border,
                         subvolume.box.z2 + subvolume.border,
                         box2.z1 - subvolume.border, box2.z2 + subvolume.border)
    IN  <<boundary_key(subvolume.sv_index, partner[1]),
          <<subvolume,
            Crop(labels, <<oz[1], oz[2]>>, <<oy[1], oy[2]>>, <<ox[1], ox[2]>>)>>>>

\* no assertion of intersects fails for any partner
extract_boundaries_ok(subvolume) ==
    \A n \in 1..Len(subvolume.local_regions) :
        LET box2 == subvolume.local_regions[n][2]
        IN  /\ intersects_ok(subvolume.box.x1 - subvolume.border,
                             subvolume.box.x2 + subvolume.border,
                             box2.x1 - subvolume.border, box2.x2 + subvolume.border)
            /\ intersects_ok(subvolume.box.y1 - subvolume.border,
                             subvolume.box.y2 + subvolume.border,
                             box2.y1 - subvolume.border, box2.y2 + subvolume.border)
            /\ intersects_ok(subvolume.box.z1 - subvolume.border,
                             subvolume.box.z2 + subvolume.border,
                             box2.z1 - subvolume.border, box2.z2 + subvolume.border)

\* extract_boundaries((subvolume, labels)): boundary_array
extract_boundaries(subvolume, labels) ==
    [n \in 1..Len(subvolume.local_regions) |->
        boundary_entry(subvolume, labels, subvolume.local_regions[n])]

\* one task of flatMap(extract_boundaries)
ExtractBoundaries(i) ==
    /\ tpc = "extract"
    /\ i \in DOMAIN subvolumes
    /\ i \notin DOMAIN boundary_arrays
    /\ IF extract_boundaries_ok(subvolumes[i])
       THEN /\ boundary_arrays' =
                   DictSet(boundary_arrays, i, extract_boundaries(subvolumes[i], seg_vols[i]))
            /\ tpc' = tpc
       ELSE /\ tpc' = "error"
            /\ UNCHANGED boundary_arrays
    /\ UNCHANGED <<subvolumes, seg_vols, max_ids, delivery, offsets, offset,
                   subvolume_mappings, merge_list, merger_pos,
                   body1body2, body2body1, master_merge_list, relabeled>>
    /\ UNCHANGED <<is_cached, offset_pos>>
    /\ UNCHANGED split_vars
    /\ UNCHANGED helper_vars

\* grouped_boundaries = mapped_boundaries.groupByKey(): the shuffle waits for
\* every task of the flatMap
GroupByKey ==
    /\ tpc = "extract"
    /\ DOMAIN boundary_arrays = DOMAIN subvolumes
    /\ tpc' = "stitch"
    /\ UNCHANGED <<subvolumes, seg_vols, max_ids, delivery, offsets, offset,
                   boundary_arrays, subvolume_mappings, merge_list, merger_pos,
                   body1body2, body2body1, master_merge_list, relabeled>>
    /\ UNCHANGED <<is_cached, offset_pos>>
    /\ UNCHANGED split_vars
    /\ UNCHANGED helper_vars

(***************************************************************************)
(* stitch: stitcher, reduce_mappings and collect.                          *)
(***************************************************************************)
\* the sequences that list every element of a finite set once
Perms(S) ==
    {f \in [1..Cardinality(S) -> S] : \A a, b \in 1..Cardinality(S) : f[a] = f[b] => a = b}

RECURSIVE ConcatAll(_)
\* the concatenation of a sequence of sequences
ConcatAll(ss) == IF ss = <<>> THEN <<>> ELSE Head(ss) \o ConcatAll(Tail(ss))

\* the keys emitted by the tasks of extract_boundaries
BoundaryKeys(arrays) ==
    UNION {{arrays[i][n][1] : n \in 1..Len(arrays[i])} : i \in DOMAIN arrays}

\* the places <<task, position>> of the entries grouped under a key
GroupPlaces(arrays, key) ==
    {pl \in UNION {{<<i, n>> : n \in 1..Len(arrays[i])} : i \in DOMAIN arrays} :
        arrays[pl[1]][pl[2]][1] = key}

\* the values grouped under a key, in every order the shuffle can give
GroupedBoundaries(arrays, key) ==
    {[n \in 1..Len(order) |-> arrays[order[n][1]][order[n][2]][2]] :
        order \in Perms(GroupPlaces(arrays, key))}

\* a variant that takes the two entries in the order of arrival
ordered_pair_as_given(boundary_list) == <<boundary_list[1], boundary_list[2]>>

\* the two entries of stitcher by ascending sv_index
ordered_pair(boundary_list) ==
    IF boundary_list[1][1].sv_index > boundary_list[2][1].sv_index
    THEN <<boundary_list[2], boundary_list[1]>>
    ELSE <<boundary_list[1], boundary_list[2]>>

\* the slice of one axis that stitcher inspects for eligible bodies: the
\* center plane when the boxes touch along the axis, the whole axis otherwise
eligible_range(touching, len) ==
    IF touching THEN <<len \div 2, (len \div 2) + 1>> ELSE <<0, len>>

\* a variant that takes every body of boundary2 as eligible
eligible_bodies_all(subvolume1, subvolume2, boundary1, boundary2) == Unique(boundary2)

\* eligible_bodies
eligible_bodies(subvolume1, subvolume2, boundary1, boundary2) ==
    Unique(Crop(boundary2,
                eligible_range(touches(subvolume1.box.z1, subvolume1.box.z2,
                                       subvolume2.box.z1, subvolume2.box.z2),
                               boundary1.shape[1]),
                eligible_range(touches(subvolume1.box.y1, subvolume1.box.y2,
                                       subvolume2.box.y1, subvolume2.box.y2),
                               boundary1.shape[2]),
                eligible_range(touches(subvolume1.box.x1, subvolume1.box.x2,
                                       subvolume2.box.x1, subvolume2.box.x2),
                               boundary1.shape[3])))

\* The dicts of stitcher are Python 2 dicts with integer keys, and items()
\* walks the slots of their hash table.  A table is a function from its slots
\* 0 .. size - 1 to the key held there, -1 for a free slot; the hash of an
\* integer label is the label itself.

RECURSIVE dict_free_slot(_, _, _)
\* the slot a new key takes: slot i if free, otherwise the next slot of the
\* probe sequence i = 5 * i + perturb + 1, perturb shifted right by 5 bits
\* after each probe
dict_free_slot(table, i, perturb) ==
    LET size == Cardinality(DOMAIN table)
    IN  IF table[i % size] = -1 THEN i % size
        ELSE dict_free_slot(table, 5 * (i % size) + perturb + 1, perturb \div 32)

\* the table with a key it does not hold yet
dict_insert(table, key) == [table EXCEPT ![dict_free_slot(table, key, key)] = key]

\* the keys of a table in the order of its slots
dict_table_keys(table) ==
    LET slots == SortedSeq({slot \in DOMAIN table : table[slot] # -1})
    IN  [n \in 1..Len(slots) |-> table[slots[n]]]

RECURSIVE dict_insert_all(_, _)
dict_insert_all(table, keys) ==
    IF keys = <<>> THEN table
    ELSE dict_insert_all(dict_insert(table, Head(keys)), Tail(keys))

RECURSIVE dict_new_size(_, _)
\* the size of a resized table: the first power of two above minused, 8 at
\* the least
dict_new_size(newsize, minused) ==
    IF newsize <= minused THEN dict_new_size(2 * newsize, minused) ELSE newsize

\* the table after "d[key] = value" for a new key: the key is put in, and a
\* table that is two thirds full or more is rebuilt, slot by slot, in a table
\* of more than four times as many slots as it has keys (twice as many once
\* it has more than 50000 keys)
dict_setitem(table, key) ==
    LET put == dict_insert(table, key)
        used == Cardinality({slot \in DOMAIN put : put[slot] # -1})
    IN  IF used * 3 >= Cardinality(DOMAIN put) * 2
        THEN dict_insert_all([slot \in 0..(dict_new_size(8, (IF used > 50000 THEN 2 ELSE 4) * used) - 1) |-> -1],
                             dict_table_keys(put))
        ELSE put

RECURSIVE dict_table_of(_, _)
dict_table_of(table, inserted) ==
    IF inserted = <<>> THEN table
    ELSE dict_table_of(dict_setitem(table, Head(inserted)), Tail(inserted))

\* the keys of a dict in the order in which items() gives them, for a dict
\* that got its keys in the order "inserted" and lost none
dict_items_order(inserted) ==
    dict_table_keys(dict_table_of([slot \in 0..7 |-> -1], inserted))

\* the nonzero bodies of boundary1 found on a nonzero body2 of boundary2, in
\* the order in which numpy.ndenumerate(boundary1) comes to them first
bodies1_by_first_voxel(boundary1, boundary2, body2) ==
    LET shared == {p \in DOMAIN boundary1.data :
                      boundary2.data[p] = body2 /\ boundary1.data[p] # 0}
        firsts == SortedSeq({SetMin({FlatIndex(boundary1.shape, q) :
                                        q \in {r \in shared :
                                                  boundary1.data[r] = boundary1.data[p]}}) :
                                p \in shared})
    IN  [n \in 1..Len(firsts) |->
            boundary1.data[CHOOSE p \in shared :
                               FlatIndex(boundary1.shape, p) = firsts[n]]]

\* body2body after the traversal: for every nonzero body of boundary2 the
\* number of voxels it shares with each nonzero body of boundary1.  A dict is
\* given by the order in which its keys were inserted and by its values:
\* the keys of body2body by ascending label (numpy.unique), the keys of each
\* inner dict by first voxel.
body2body_counts(boundary1, boundary2) ==
    [inserted |-> SortedSeq(Unique(boundary2) \ {0}),
     value |->
        [body2 \in Unique(boundary2) \ {0} |->
            LET shared == {p \in DOMAIN boundary1.data :
                              boundary2.data[p] = body2 /\ boundary1.data[p] # 0}
            IN  [inserted |-> bodies1_by_first_voxel(boundary1, boundary2, body2),
                 value |-> [body1 \in {boundary1.data[p] : p \in shared} |->
                              Cardinality({p \in shared : boundary1.data[p] = body1})]]]]

\* the merge list of stitcher before the offsets: body2body.items() and, for
\* every eligible body2, bodydict.items(), each in the order of its dict
local_merge_list(eligible, body2body) ==
    LET bodies2 == SelectSeq(dict_items_order(body2body.inserted),
                             LAMBDA body2 : body2 \in eligible)
    IN  ConcatAll([n \in 1..Len(bodies2) |->
            LET bodydict == body2body.value[bodies2[n]]
            IN  SelectSeq([m \in 1..Len(bodydict.inserted) |->
                              <<dict_items_order(bodydict.inserted)[m], bodies2[n]>>],
                          LAMBDA merger : bodydict.value[merger[1]] > 0)])

\* a variant that leaves the local labels in the mergers
offset_merge_list_local(mergers, offset1, offset2) == mergers

\* "handle offsets in mergelist"
offset_merge_list(mergers, offset1, offset2) ==
    [n \in 1..Len(mergers) |-> <<mergers[n][1] + offset1, mergers[n][2] + offset2>>]

\* stitcher from "order subvolume regions" on, for a list of two or more
stitcher_ordered(boundary_list, subvolume_offsets) ==
    LET pair == ordered_pair(boundary_list)
        subvolume1 == pair[1][1]
        boundary1 == pair[1][2]
        subvolume2 == pair[2][1]
        boundary2 == pair[2][2]
    IN  IF boundary1.shape # boundary2.shape
        THEN Raised
        ELSE [ok |-> TRUE,
              sv_index |-> subvolume1.sv_index,
              merge_list |->
                  offset_merge_list(
                      local_merge_list(
                          eligible_bodies(subvolume1, subvolume2, boundary1, boundary2),
                          body2body_counts(boundary1, boundary2)),
                      subvolume_offsets[subvolume1.sv_index],
                      subvolume_offsets[subvolume2.sv_index])]

\* a variant that only refuses a list too short to take two entries from
stitcher_at_least_two(key, boundary_list, subvolume_offsets) ==
    IF Len(boundary_list) < 2
    THEN Raised
    ELSE stitcher_ordered(boundary_list, subvolume_offsets)

\* stitcher((key, boundary_list)): ok is FALSE when it raises
stitcher(key, boundary_list, subvolume_offsets) ==
    IF Len(boundary_list) # 2
    THEN Raised
    ELSE stitcher_ordered(boundary_list, subvolume_offsets)

\* one task of grouped_boundaries.map(stitcher)
Stitcher(key) ==
    /\ tpc = "stitch"
    /\ key \in BoundaryKeys(boundary_arrays)
    /\ key \notin DOMAIN subvolume_mappings
    /\ \E boundary_list \in GroupedBoundaries(boundary_arrays, key) :
       \E r \in {stitcher(key, boundary_list, offsets)} :
          IF r.ok
          THEN /\ subvolume_mappings' =
                      DictSet(subvolume_mappings, key, <<r.sv_index, r.merge_list>>)
               /\ tpc' = tpc
          ELSE /\ tpc' = "error"
               /\ UNCHANGED subvolume_mappings
    /\ UNCHANGED <<subvolumes, seg_vols, max_ids, delivery, offsets, offset,
                   boundary_arrays, merge_list, merger_pos,
                   body1body2, body2body1, master_merge_list, relabeled>>
    /\ UNCHANGED <<is_cached, offset_pos>>
    /\ UNCHANGED split_vars
    /\ UNCHANGED helper_vars

\* the orders in which reduceByKey(reduce_mappings) and collect can string the
\* mappings together: the mappings of one substack id stay next to each other
collect_orders(mappings) ==
    {order \in Perms(DOMAIN mappings) :
        \A a, b, c \in 1..Len(order) :
            (a < b /\ b < c /\ mappings[order[a]][1] = mappings[order[c]][1])
                => mappings[order[b]][1] = mappings[order[a]][1]}

\* merge_list after "for (substack_id, mapping) in all_mappings"
collected_merge_list(mappings, order) ==
    ConcatAll([n \in 1..Len(order) |-> mappings[order[n]][2]])

\* a variant of the collection that does not wait for every stitcher task
CollectEager ==
    /\ tpc = "stitch"
    /\ \E order \in collect_orders(subvolume_mappings) :
          merge_list' = collected_merge_list(subvolume_mappings, order)
    /\ tpc' = "reconcile"
    /\ UNCHANGED <<subvolumes, seg_vols, max_ids, delivery, offsets, offset,
                   boundary_arrays, subvolume_mappings, merger_pos,
                   body1body2, body2body1, master_merge_list, relabeled>>
    /\ UNCHANGED <<is_cached, offset_pos>>
    /\ UNCHANGED split_vars
    /\ UNCHANGED helper_vars

\* reduceByKey, collect and the extension of merge_list
Collect ==
    /\ tpc = "stitch"
    /\ DOMAIN subvolume_mappings = BoundaryKeys(boundary_arrays)
    /\ \E order \in collect_orders(subvolume_mappings) :
          merge_list' = collected_merge_list(subvolume_mappings, order)
    /\ tpc' = "reconcile"
    /\ UNCHANGED <<subvolumes, seg_vols, max_ids, delivery, offsets, offset,
                   boundary_arrays, subvolume_mappings, merger_pos,
                   body1body2, body2body1, master_merge_list, relabeled>>
    /\ UNCHANGED <<is_cached, offset_pos>>
    /\ UNCHANGED split_vars
    /\ UNCHANGED helper_vars

(***************************************************************************)
(* stitch: global reconciliation (the body1body2 / body2body1 loop).       *)
(***************************************************************************)
\* a label looked up in body1body2, itself when it is no key
Resolve(b1b2, x) == IF x \in DOMAIN b1b2 THEN b1b2[x] ELSE x

\* a variant that walks the keys of body1body2 in place of the members of body1
absorb_all_keys(b1b2, b2b1, body1, body2) ==
    <<[k \in DOMAIN b1b2 |-> body2],
      DictSet(b2b1, body2, b2b1[body2] \cup DOMAIN b1b2)>>

\* the end of the loop body: every known member of body1 goes over to body2
absorb_members(b1b2, b2b1, body1, body2) ==
    IF body1 \in DOMAIN b2b1
    THEN <<DictUpdate(b1b2, [tbody \in b2b1[body1] |-> body2]),
           DictSet(b2b1, body2, b2b1[body2] \cup b2b1[body1])>>
    ELSE <<b1b2, b2b1>>

\* a variant of the loop body that only records body1 -> body2
merge_step_no_members(b1b2, b2b1, merger) ==
    <<DictSet(b1b2, Resolve(b1b2, merger[1]), Resolve(b1b2, merger[2])),
      DictSet(b2b1, Resolve(b1b2, merger[2]),
              (IF Resolve(b1b2, merger[2]) \in DOMAIN b2b1
               THEN b2b1[Resolve(b1b2, merger[2])] ELSE {})
                  \cup {Resolve(b1b2, merger[1])})>>

\* a variant of the loop body in which the first label of the merger wins
merge_step_reversed(b1b2, b2b1, merger) ==
    LET body1 == Resolve(b1b2, merger[2])
        body2 == Resolve(b1b2, merger[1])
        members == IF body2 \in DOMAIN b2b1 THEN b2b1[body2] ELSE {}
    IN  absorb_members(DictSet(b1b2, body1, body2),
                       DictSet(b2b1, body2, members \cup {body1}),
                       body1, body2)

\* a variant of the loop body that does not look up the first label
merge_step_first_unresolved(b1b2, b2b1, merger) ==
    LET body1 == merger[1]
        body2 == Resolve(b1b2, merger[2])
        members == IF body2 \in DOMAIN b2b1 THEN b2b1[body2] ELSE {}
    IN  absorb_members(DictSet(b1b2, body1, body2),
                       DictSet(b2b1, body2, members \cup {body1}),
                       body1, body2)

\* one iteration of "for merger in merge_list": the pair of dicts after it
merge_step(b1b2, b2b1, merger) ==
    LET body1 == Resolve(b1b2, merger[1])
        body2 == Resolve(b1b2, merger[2])
        members == IF body2 \in DOMAIN b2b1 THEN b2b1[body2] ELSE {}
    IN  absorb_members(DictSet(b1b2, body1, body2),
                       DictSet(b2b1, body2, members \cup {body1}),
                       body1, body2)

\* zip(body1body2.keys(), body1body2.values())
body2body_of(b1b2) == {<<k, b1b2[k]>> : k \in DOMAIN b1b2}

\* "for merger in merge_list": one merger
ReconcileStep ==
    /\ tpc = "reconcile"
    /\ merger_pos < Len(merge_list)
    /\ \E r \in {merge_step(body1body2, body2body1, merge_list[merger_pos + 1])} :
          /\ body1body2' = r[1]
          /\ body2body1' = r[2]
    /\ merger_pos' = merger_pos + 1
    /\ UNCHANGED <<tpc, subvolumes, seg_vols, max_ids, delivery, offsets, offset,
                   boundary_arrays, subvolume_mappings, merge_list,
                   master_merge_list, relabeled>>
    /\ UNCHANGED <<is_cached, offset_pos>>
    /\ UNCHANGED split_vars
    /\ UNCHANGED helper_vars

\* master_merge_list = sc.broadcast(body2body)
BroadcastMergeList ==
    /\ tpc = "reconcile"
    /\ merger_pos = Len(merge_list)
    /\ master_merge_list' = body2body_of(body1body2)
    /\ tpc' = "relabel"
    /\ UNCHANGED <<subvolumes, seg_vols, max_ids, delivery, offsets, offset,
                   boundary_arrays, subvolume_mappings, merge_list, merger_pos,
                   body1body2, body2body1, relabeled>>
    /\ UNCHANGED <<is_cached, offset_pos>>
    /\ UNCHANGED split_vars
    /\ UNCHANGED helper_vars

(***************************************************************************)
(* stitch: relabel.                                                        *)
(***************************************************************************)
\* a variant that leaves the shifted background where it is
zero_protect_none(labels, off) == [labels EXCEPT !.data = [p \in DOMAIN labels.data |-> labels.data[p] + off]]

\* labels = labels + offset; labels[labels == offset] = 0
zero_protect(labels, off) ==
    [labels EXCEPT !.data = [p \in DOMAIN labels.data |->
                                IF labels.data[p] + off = off THEN 0
                                ELSE labels.data[p] + off]]

\* a variant that keeps the default map
label_mappings_default(mapping_col, master) == [k \in mapping_col |-> k]

\* a variant that sends every label the master merge list does not name to 0
label_mappings_strict(mapping_col, master) ==
    [k \in mapping_col |->
        IF \E mapping \in master : mapping[1] = k
        THEN (CHOOSE mapping \in master : mapping[1] = k)[2]
        ELSE 0]

\* label_mappings: the default map overwritten by the master merge list
label_mappings_of(mapping_col, master) ==
    [k \in mapping_col |->
        IF \E mapping \in master : mapping[1] = k
        THEN (CHOOSE mapping \in master : mapping[1] = k)[2]
        ELSE k]

\* relabel((subvolume, labels)): new_labels
relabel(subvolume, labels, subvolume_offsets, master) ==
    LET shifted == zero_protect(labels, subvolume_offsets[subvolume.sv_index])
    IN  [shifted EXCEPT !.data =
            applyMappingIncomplete(shifted.data, label_mappings_of(Unique(shifted), master))]

\* a variant of the task that shifts the labels of its input in place
RelabelInPlace(i) ==
    /\ tpc = "relabel"
    /\ i \in DOMAIN subvolumes
    /\ i \notin DOMAIN relabeled
    /\ relabeled' = DictSet(relabeled, i,
                            relabel(subvolumes[i], seg_vols[i], offsets, master_merge_list))
    /\ seg_vols' = DictSet(seg_vols, i, zero_protect(seg_vols[i], offsets[subvolumes[i].sv_index]))
    /\ UNCHANGED <<tpc, subvolumes, max_ids, delivery, offsets, offset,
                   boundary_arrays, subvolume_mappings, merge_list, merger_pos,
                   body1body2, body2body1, master_merge_list>>
    /\ UNCHANGED <<is_cached, offset_pos>>
    /\ UNCHANGED split_vars
    /\ UNCHANGED helper_vars

\* one task of map(relabel)
Relabel(i) ==
    /\ tpc = "relabel"
    /\ i \in DOMAIN subvolumes
    /\ i \notin DOMAIN relabeled
    /\ relabeled' = DictSet(relabeled, i,
                            relabel(subvolumes[i], seg_vols[i], offsets, master_merge_list))
    /\ UNCHANGED <<tpc, subvolumes, seg_vols, max_ids, delivery, offsets, offset,
                   boundary_arrays, subvolume_mappings, merge_list, merger_pos,
                   body1body2, body2body1, master_merge_list>>
    /\ UNCHANGED <<is_cached, offset_pos>>
    /\ UNCHANGED split_vars
    /\ UNCHANGED helper_vars

\* every task of the returned RDD has run
StitchDone ==
    /\ tpc = "relabel"
    /\ DOMAIN relabeled = DOMAIN subvolumes
    /\ tpc' = "done"
    /\ UNCHANGED <<subvolumes, seg_vols, max_ids, delivery, offsets, offset,
                   boundary_arrays, subvolume_mappings, merge_list, merger_pos,
                   body1body2, body2body1, master_merge_list, relabeled>>
    /\ UNCHANGED <<is_cached, offset_pos>>
    /\ UNCHANGED split_vars
    /\ UNCHANGED helper_vars

(***************************************************************************)
(* The reconciliation loop on its own, for every merge list within bounds. *)
(***************************************************************************)
\* mergers join two different global labels
RecMergers == {m \in (1..RecLabels) \X (1..RecLabels) : m[1] # m[2]}

RecMergeLists == UNION {[1..n -> RecMergers] : n \in 0..MaxMergers}

RecInit ==
    /\ HelperIdle
    /\ SplitIdle
    /\ tpc = "reconcile"
    /\ is_cached = TRUE
    /\ offset_pos = 0
    /\ merge_list \in RecMergeLists
    /\ subvolumes = EmptyDict
    /\ seg_vols = EmptyDict
    /\ max_ids = EmptyDict
    /\ delivery = <<>>
    /\ offsets = EmptyDict
    /\ offset = 0
    /\ boundary_arrays = EmptyDict
    /\ subvolume_mappings = EmptyDict
    /\ merger_pos = 0
    /\ body1body2 = EmptyDict
    /\ body2body1 = EmptyDict
    /\ master_merge_list = {}
    /\ relabeled = EmptyDict

RecNext ==
    \/ ReconcileStep
    \/ BroadcastMergeList

SpecRec == RecInit /\ [][RecNext]_vars

(***************************************************************************)
(* stitch on a row of three subvolumes.                                    *)
(***************************************************************************)
\* the subvolumes in a row along x, subvolume i at place i
RowSubvolumes == SubvolumesOf([i \in SvIndices |-> i])

\* the label profiles along x of a subvolume; the halo that sticks out of the
\* row at either end is unlabeled
Profiles(sv) ==
    {f \in [0..(SegShape(sv)[3] - 1) -> 0..MaxLabel] :
        /\ (\A j \in SvIndices : sv.box.x1 <= RowSubvolumes[j].box.x1) => f[0] = 0
        /\ (\A j \in SvIndices : sv.box.x2 >= RowSubvolumes[j].box.x2)
               => f[SegShape(sv)[3] - 1] = 0}

\* the label volume with a given profile along x
VolumeOf(sv, f) ==
    [shape |-> SegShape(sv), data |-> [p \in VoxelsOf(SegShape(sv)) |-> f[p[3]]]]

\* the label volumes of a subvolume
SegVolumes(sv) == {VolumeOf(sv, f) : f \in Profiles(sv)}

\* label_chunks: the subvolumes, their label volumes and the max_id of each,
\* the greatest label of its volume
LabelChunks ==
    /\ subvolumes = RowSubvolumes
    /\ seg_vols \in [SvIndices -> UNION {SegVolumes(RowSubvolumes[i]) : i \in SvIndices}]
    /\ \A i \in SvIndices : seg_vols[i] \in SegVolumes(RowSubvolumes[i])
    /\ max_ids = [i \in SvIndices |-> VolMax(seg_vols[i])]

\* the state of stitch at its entry, label_chunks persisted or not
StitchStart ==
    /\ tpc = "entry"
    /\ is_cached \in BOOLEAN
    /\ offset_pos = 0
    /\ offsets = EmptyDict
    /\ offset = 0
    /\ boundary_arrays = EmptyDict
    /\ subvolume_mappings = EmptyDict
    /\ merge_list = <<>>
    /\ merger_pos = 0
    /\ body1body2 = EmptyDict
    /\ body2body1 = EmptyDict
    /\ master_merge_list = {}
    /\ relabeled = EmptyDict

StitchInit ==
    /\ HelperIdle
    /\ SplitIdle
    /\ LabelChunks
    /\ delivery = SortedSeq(SvIndices)
    /\ StitchStart

StitchNext ==
    \/ AssertCached
    \/ AssignOffset
    \/ BroadcastOffsets
    \/ \E i \in SvIndices : ExtractBoundaries(i)
    \/ GroupByKey
    \/ \E key \in SvIndices \X SvIndices : Stitcher(key)
    \/ Collect
    \/ ReconcileStep
    \/ BroadcastMergeList
    \/ \E i \in SvIndices : Relabel(i)
    \/ StitchDone

SpecStitch == StitchInit /\ [][StitchNext]_vars

(***************************************************************************)
(* The offset loop on its own, for every max_id within bounds and every    *)
(* order in which collect() can deliver the subvolumes.                    *)
(***************************************************************************)
OffsetsInit ==
    /\ HelperIdle
    /\ SplitIdle
    /\ subvolumes = RowSubvolumes
    /\ seg_vols = EmptyDict
    /\ max_ids \in [SvIndices -> 0..MaxId]
    /\ delivery \in Perms(SvIndices)
    /\ StitchStart

OffsetsNext ==
    \/ AssertCached
    \/ AssignOffset
    \/ BroadcastOffsets

SpecOffsets == OffsetsInit /\ [][OffsetsNext]_vars

(***************************************************************************)
(* stitch on two adjacent subvolumes, max_id at or above the greatest      *)
(* label of each.                                                          *)
(***************************************************************************)
PairIndices == {0, 1}

PairSubvolumes == SubvolumesOf([i \in PairIndices |-> i])

\* the label profiles along x of a subvolume of a partition svs; the halo
\* that sticks out of the partition at either end is unlabeled
ProfilesIn(sv, svs) ==
    {f \in [0..(SegShape(sv)[3] - 1) -> 0..MaxLabel] :
        /\ (\A j \in DOMAIN svs : sv.box.x1 <= svs[j].box.x1) => f[0] = 0
        /\ (\A j \in DOMAIN svs : sv.box.x2 >= svs[j].box.x2)
               => f[SegShape(sv)[3] - 1] = 0}

\* the label volumes of the two subvolumes
PairVolumes ==
    {v \in [PairIndices -> UNION {{VolumeOf(PairSubvolumes[i], f) :
                                     f \in ProfilesIn(PairSubvolumes[i], PairSubvolumes)} :
                                  i \in PairIndices}] :
        \A i \in PairIndices :
            \E f \in ProfilesIn(PairSubvolumes[i], PairSubvolumes) :
                v[i] = VolumeOf(PairSubvolumes[i], f)}

PairInit ==
    /\ HelperIdle
    /\ SplitIdle
    /\ subvolumes = PairSubvolumes
    /\ seg_vols \in PairVolumes
    /\ \E slack \in {0, 1} : max_ids = [i \in PairIndices |-> VolMax(seg_vols[i]) + slack]
    /\ delivery = SortedSeq(PairIndices)
    /\ StitchStart

PairNext ==
    \/ AssertCached
    \/ AssignOffset
    \/ BroadcastOffsets
    \/ \E i \in PairIndices : ExtractBoundaries(i)
    \/ GroupByKey
    \/ \E key \in PairIndices \X PairIndices : Stitcher(key)
    \/ Collect
    \/ ReconcileStep
    \/ BroadcastMergeList
    \/ \E i \in PairIndices : Relabel(i)
    \/ StitchDone

SpecPair == PairInit /\ [][PairNext]_vars

(***************************************************************************)
(* stitch on two adjacent subvolumes whose neighbor lists may be malformed:*)
(* a neighbor missing or listed more than once.                            *)
(***************************************************************************)
\* the neighbor lists a descriptor can carry: its neighbors, each any number
\* of times up to MaxRegions entries in all
RegionLists(sv) ==
    UNION {[1..n -> Range(sv.local_regions)] : n \in 0..MaxRegions}

MalformedSubvolumes ==
    {svs \in [PairIndices -> UNION {{[PairSubvolumes[i] EXCEPT !.local_regions = r] :
                                       r \in RegionLists(PairSubvolumes[i])} :
                                    i \in PairIndices}] :
        \A i \in PairIndices : svs[i].sv_index = i}

MalformedInit ==
    /\ HelperIdle
    /\ SplitIdle
    /\ subvolumes \in MalformedSubvolumes
    /\ seg_vols \in PairVolumes
    /\ max_ids = [i \in PairIndices |-> VolMax(seg_vols[i])]
    /\ delivery = SortedSeq(PairIndices)
    /\ StitchStart

SpecMalformed == MalformedInit /\ [][PairNext]_vars

(***************************************************************************)
(* stitch on three subvolumes around a corner: subvolume 0 has subvolume 1 *)
(* as its neighbor along x and subvolume 2 as its neighbor along y.        *)
(***************************************************************************)
\* the box of the chunk at grid place <<z, y, x>>
BoxAtPlace(pl) ==
    [x1 |-> pl[3] * ChunkSize, x2 |-> (pl[3] + 1) * ChunkSize,
     y1 |-> pl[2] * ChunkSize, y2 |-> (pl[2] + 1) * ChunkSize,
     z1 |-> pl[1] * ChunkSize, z2 |-> (pl[1] + 1) * ChunkSize]

\* the boxes share a face: they meet along one axis and span the same
\* ranges of the other two
ShareFace(b1, b2) ==
    \/ /\ touches(b1.x1, b1.x2, b2.x1, b2.x2)
       /\ b1.y1 = b2.y1 /\ b1.y2 = b2.y2 /\ b1.z1 = b2.z1 /\ b1.z2 = b2.z2
    \/ /\ touches(b1.y1, b1.y2, b2.y1, b2.y2)
       /\ b1.x1 = b2.x1 /\ b1.x2 = b2.x2 /\ b1.z1 = b2.z1 /\ b1.z2 = b2.z2
    \/ /\ touches(b1.z1, b1.z2, b2.z1, b2.z2)
       /\ b1.x1 = b2.x1 /\ b1.x2 = b2.x2 /\ b1.y1 = b2.y1 /\ b1.y2 = b2.y2

\* the subvolume descriptors of chunks at grid places, place[i] being the
\* place of subvolume i; local_regions by ascending index of the neighbor
GridSubvolumes(place) ==
    [i \in DOMAIN place |->
        [sv_index |-> i, box |-> BoxAtPlace(place[i]), border |-> Border,
         local_regions |->
             LET nb == SortedSeq({j \in DOMAIN place \ {i} :
                                     ShareFace(BoxAtPlace(place[i]), BoxAtPlace(place[j]))})
             IN  [n \in 1..Len(nb) |-> <<nb[n], BoxAtPlace(place[nb[n]])>>]]]

CornerPlaces ==
    [i \in SvIndices |->
        IF i = 0 THEN <<0, 0, 0>> ELSE IF i = 1 THEN <<0, 0, 1>> ELSE <<0, 1, 0>>]

CornerSubvolumes == GridSubvolumes(CornerPlaces)

\* the label volume of a subvolume that lies within one body, or within none
UniformVolume(sv, l) ==
    [shape |-> SegShape(sv), data |-> [p \in VoxelsOf(SegShape(sv)) |-> l]]

CornerInit ==
    /\ HelperIdle
    /\ SplitIdle
    /\ subvolumes = CornerSubvolumes
    /\ \E l \in [SvIndices -> 0..MaxLabel] :
          seg_vols = [i \in SvIndices |-> UniformVolume(CornerSubvolumes[i], l[i])]
    /\ max_ids = [i \in SvIndices |-> VolMax(seg_vols[i])]
    /\ delivery = SortedSeq(SvIndices)
    /\ StitchStart

SpecCorner == CornerInit /\ [][StitchNext]_vars

\* a label through the label -> representative map, itself when it is no key
Rep(M, x) == IF x \in DOMAIN M THEN M[x] ELSE x

\* the dict a list of (key, value) pairs with distinct keys stands for
PairsAsDict(pairs) ==
    [k \in {e[1] : e \in pairs} |-> (CHOOSE e \in pairs : e[1] = k)[2]]

\* C4: after any number of processed mergers (duplicates and cycles included)
\* the label -> representative map is idempotent: the image of a key is no key
\* or maps to itself; the same holds of the broadcast list
C4_Idempotent ==
    /\ tpc \in {"reconcile", "relabel"} =>
           \A x \in DOMAIN body1body2 :
               Rep(body1body2, body1body2[x]) = body1body2[x]
    /\ tpc = "relabel" =>
           \A e \in master_merge_list :
               Rep(PairsAsDict(master_merge_list), e[2]) = e[2]

\* a duplicate merger and a cycle have been processed, and some representative
\* is itself a key
C4_Witness ==
    /\ tpc = "relabel"
    /\ Len(merge_list) = MaxMergers
    /\ \E i, j \in 1..Len(merge_list) : i < j /\ merge_list[i] = merge_list[j]
    /\ \E x \in DOMAIN body1body2 : body1body2[x] = x
    /\ \E x \in DOMAIN body1body2 : body1body2[x] # x

\* a chain and a cycle: a -> b, b -> c and c -> a processed
C4_WitnessCycle ==
    /\ tpc = "relabel"
    /\ \E a, b, c \in 1..RecLabels :
          /\ Cardinality({a, b, c}) = 3
          /\ merge_list = <<<<a, b>>, <<b, c>>, <<c, a>>>>

(***************************************************************************)
(* Properties of split_disconnected_bodies.                                *)
(***************************************************************************)
\* the nonzero labels of the input
BodyLabels == Range(labels_orig) \ {0}

\* the greatest label of the input (0 for the all-zero volume)
MaxOrig == SetMax(Range(labels_orig) \cup {0})

\* the connected pieces of the input
InputPieces == Pieces(labels_orig)

\* among the pieces PS of the input, those that carry label v
PiecesOfLabel(PS, v) == {P \in PS : \E p \in P : labels_orig[p] = v}

\* the labels whose voxels form two or more of the pieces PS
SplitLabels(PS) == {v \in BodyLabels : Cardinality(PiecesOfLabel(PS, v)) >= 2}

\* a piece carries label k everywhere in the output
PieceHas(P, k) == \A p \in P : labels_new[p] = k

\* the number of non-dominant pieces among the pieces PS
NumExtraPieces(PS) == Cardinality(PS) - Cardinality(BodyLabels)

\* a voxel's output label sent back through new_to_orig
BackToOrig(v) == IF v \in DOMAIN new_to_orig THEN new_to_orig[v] ELSE v

\* C1: relabeling labels_new back through new_to_orig (keys mapped, other
\* labels left alone) gives labels_orig voxel for voxel; 0 stays 0
C1_RoundTrip ==
    spc = "done" =>
        /\ DOMAIN labels_new = DOMAIN labels_orig
        /\ \A p \in DOMAIN labels_orig : BackToOrig(labels_new[p]) = labels_orig[p]
        /\ \A p \in DOMAIN labels_orig : labels_orig[p] = 0 => labels_new[p] = 0

C1_Witness ==
    /\ spc = "done"
    /\ \E p \in DOMAIN labels_orig :
          /\ labels_new[p] # labels_orig[p]
          /\ new_to_orig[labels_new[p]] = labels_orig[p]
    /\ \E p \in DOMAIN labels_orig : labels_orig[p] = 0

\* C5: of the pieces of a split label exactly one keeps the original label, it
\* has the greatest voxel count among them, and every other piece carries a
\* label above the greatest label of the input
C5_LargestKeepsLabel ==
    spc = "done" =>
        \A PS \in {InputPieces} : \A N \in {MaxOrig} :
            \A v \in SplitLabels(PS) : \A PV \in {PiecesOfLabel(PS, v)} :
                \E P \in PV :
                    /\ PieceHas(P, v)
                    /\ \A Q \in PV : Cardinality(Q) <= Cardinality(P)
                    /\ \A Q \in PV \ {P} : \A q \in Q : labels_new[q] > N

\* a split label whose largest piece is not its first piece in scan order
C5_Witness ==
    /\ spc = "done"
    /\ \E PS \in {InputPieces} :
          \E v \in SplitLabels(PS) : \E P, Q \in PiecesOfLabel(PS, v) :
              /\ Cardinality(P) > Cardinality(Q)
              /\ FirstIndex(SplitShape, Q) < FirstIndex(SplitShape, P)
              /\ PieceHas(P, v)
              /\ ~PieceHas(Q, v)

\* C6: the keys of new_to_orig are exactly the output labels of the voxels of
\* split bodies (new labels and the retained label, the latter as k -> k);
\* every key maps to the original label of its voxels; labels of unsplit
\* bodies and 0 are not keys
C6_MappingKeys ==
    spc = "done" =>
        \A SL \in {SplitLabels(InputPieces)} :
            /\ DOMAIN new_to_orig =
                   {labels_new[p] : p \in {q \in DOMAIN labels_orig : labels_orig[q] \in SL}}
            /\ \A p \in DOMAIN labels_orig :
                   labels_new[p] \in DOMAIN new_to_orig =>
                       new_to_orig[labels_new[p]] = labels_orig[p]
            /\ \A v \in SL : v \in DOMAIN new_to_orig /\ new_to_orig[v] = v
            /\ \A v \in BodyLabels \ SL : v \notin DOMAIN new_to_orig
            /\ 0 \notin DOMAIN new_to_orig

\* a split body next to an unsplit body and background
C6_Witness ==
    /\ spc = "done"
    /\ \E SL \in {SplitLabels(InputPieces)} : SL # {} /\ BodyLabels \ SL # {}
    /\ 0 \in Range(labels_orig)
    /\ \E k \in DOMAIN new_to_orig : new_to_orig[k] = k
    /\ \E k \in DOMAIN new_to_orig : new_to_orig[k] # k

\* C7: when every nonzero label is already one connected piece (the all-zero
\* volume included) the call returns the input volume and an empty mapping
C7_ConnectedUnchanged ==
    (spc \in {"done", "error"} /\ SplitLabels(InputPieces) = {}) =>
        /\ spc = "done"
        /\ labels_new = labels_orig
        /\ new_to_orig = EmptyDict

\* a connected input whose labels are neither consecutive nor met in ascending order
C7_Witness ==
    /\ spc = "done"
    /\ SplitLabels(InputPieces) = {}
    /\ Cardinality(BodyLabels) >= 2
    /\ orig_to_consecutive # [v \in DOMAIN orig_to_consecutive |-> v]
    /\ labels_new = labels_orig

\* C8: with N the greatest input label and S the number of non-dominant
\* pieces, the labels of the output that the input does not have are exactly
\* N+1 .. N+S, each of them covers exactly one piece, and they are the keys of
\* new_to_orig that are not input labels
C8_NewLabelsConsecutive ==
    spc = "done" =>
        \A PS \in {InputPieces} : \A N \in {MaxOrig} : \A S \in {NumExtraPieces(PS)} :
            /\ Range(labels_new) \ Range(labels_orig) = (N + 1)..(N + S)
            /\ \A k \in (N + 1)..(N + S) :
                   {p \in DOMAIN labels_new : labels_new[p] = k} \in PS
            /\ DOMAIN new_to_orig \ Range(labels_orig) = (N + 1)..(N + S)

\* two new labels, the input's greatest label not being its number of labels
C8_Witness ==
    /\ spc = "done"
    /\ NumExtraPieces(InputPieces) >= 2
    /\ MaxOrig > Cardinality(BodyLabels)
    /\ MaxOrig + 2 \in Range(labels_new)

\* C9: in the output the voxels of any one nonzero label form a single
\* connected piece, and voxels with one output label had one input label
C9_OutputConnected ==
    spc = "done" =>
        /\ \A P \in Pieces(labels_new) :
               \A p \in P : \A q \in DOMAIN labels_new :
                   labels_new[q] = labels_new[p] => q \in P
        /\ \A p, q \in DOMAIN labels_new :
               labels_new[p] = labels_new[q] => labels_orig[p] = labels_orig[q]

\* a label in three pieces
C9_Witness ==
    /\ spc = "done"
    /\ \E PS \in {InputPieces} :
          /\ \E v \in BodyLabels : Cardinality(PiecesOfLabel(PS, v)) >= 3
          /\ Cardinality(Range(labels_new) \ {0}) = Cardinality(PS)

(***************************************************************************)
(* Properties of stitch.                                                   *)
(***************************************************************************)
\* every merger returned by a stitcher task
EmittedMergers ==
    UNION {Range(subvolume_mappings[key][2]) : key \in DOMAIN subvolume_mappings}

\* the global labels within one step of a set of them along the mergers E
Grow(S, E) ==
    S \cup {m[2] : m \in {e \in E : e[1] \in S}} \cup {m[1] : m \in {e \in E : e[2] \in S}}

RECURSIVE Chained(_, _)
\* the global labels joined to a set of them by a chain of mergers of E
Chained(S, E) == IF Grow(S, E) = S THEN S ELSE Chained(Grow(S, E), E)

\* the final labels of the voxels of subvolume i whose input label is l
FinalLabels(i, l) ==
    {relabeled[i].data[p] : p \in {q \in DOMAIN seg_vols[i].data : seg_vols[i].data[q] = l}}

\* the nonzero input labels of subvolume i
LocalBodies(i) == Unique(seg_vols[i]) \ {0}

\* C2: once stitch has completed, the two ends of every merger emitted by a
\* stitcher task have the same representative in the final map, and any two
\* voxels, of any subvolumes, whose offset labels are joined by a chain of
\* mergers carry the same final label.
C2_MergedShareLabel ==
    tpc = "done" =>
        \A E \in {EmittedMergers} :
        \A M \in {PairsAsDict(master_merge_list)} :
            /\ \A m \in E : Rep(M, m[1]) = Rep(M, m[2])
            /\ \A i \in SvIndices : \A l \in LocalBodies(i) :
               \A C \in {Chained({l + offsets[i]}, E)} :
               \A j \in SvIndices : \A k \in LocalBodies(j) :
                   (k + offsets[j]) \in C
                       => Cardinality(FinalLabels(i, l) \cup FinalLabels(j, k)) = 1

\* stitch has completed and a body of the middle subvolume was merged with a
\* body on either side, so a chain of two mergers joins the outer subvolumes
C2_Witness ==
    /\ tpc = "done"
    /\ \E m1 \in Range(subvolume_mappings[<<0, 1>>][2]) :
       \E m2 \in Range(subvolume_mappings[<<1, 2>>][2]) :
          /\ m1[2] = m2[1]
          /\ \E p \in DOMAIN relabeled[0].data :
                /\ seg_vols[0].data[p] + offsets[0] = m1[1]
                /\ \E q \in DOMAIN relabeled[2].data :
                      /\ seg_vols[2].data[q] + offsets[2] = m2[2]
                      /\ relabeled[0].data[p] = relabeled[2].data[q]

\* C3: for two different subvolumes i and j and any nonzero local labels
\* l <= max_id(i) and k <= max_id(j), offset(i) + l differs from offset(j) + k.
C3_OffsetLabelsUnique ==
    \A i \in DOMAIN offsets : \A j \in DOMAIN offsets \ {i} :
        \A l \in 1..max_ids[i] : \A k \in 1..max_ids[j] :
            offsets[i] + l # offsets[j] + k

\* every subvolume has its offset, each has labels to tell apart, and the
\* subvolumes were not delivered by ascending index
C3_Witness ==
    /\ tpc = "extract"
    /\ DOMAIN offsets = SvIndices
    /\ \A i \in SvIndices : max_ids[i] >= 2
    /\ delivery # SortedSeq(SvIndices)

\* the cropped boundary that task i emitted under a key
BoundaryOf(key, i) ==
    LET n == CHOOSE n \in 1..Len(boundary_arrays[i]) : boundary_arrays[i][n][1] = key
    IN  boundary_arrays[i][n][2][2]

\* C10: a voxel is 0 in the relabeled output exactly when it is 0 in the input
\* labels of its subvolume, whatever the offset, and every merger comes from a
\* voxel pair whose two local labels are nonzero.
C10_ZeroStaysZero ==
    /\ \A i \in DOMAIN relabeled : \A p \in DOMAIN seg_vols[i].data :
          relabeled[i].data[p] = 0 <=> seg_vols[i].data[p] = 0
    /\ \A key \in DOMAIN subvolume_mappings :
       \A merger \in Range(subvolume_mappings[key][2]) :
          \E p \in DOMAIN BoundaryOf(key, key[1]).data :
             /\ BoundaryOf(key, key[1]).data[p] # 0
             /\ BoundaryOf(key, key[2]).data[p] # 0
             /\ BoundaryOf(key, key[1]).data[p] + offsets[key[1]] = merger[1]
             /\ BoundaryOf(key, key[2]).data[p] + offsets[key[2]] = merger[2]

\* stitch has completed; a subvolume with a nonzero offset holds background
\* and a body, a boundary holds a body of one side over background of the
\* other, and some merger was emitted
C10_Witness ==
    /\ tpc = "done"
    /\ \E i \in SvIndices :
          /\ offsets[i] # 0
          /\ 0 \in Unique(seg_vols[i])
          /\ LocalBodies(i) # {}
    /\ \E key \in DOMAIN subvolume_mappings :
          /\ subvolume_mappings[key][2] # <<>>
          /\ \E p \in DOMAIN BoundaryOf(key, key[1]).data :
                /\ BoundaryOf(key, key[1]).data[p] = 0
                /\ BoundaryOf(key, key[2]).data[p] # 0

(***************************************************************************)
(* The two-block scenario.                                                 *)
(***************************************************************************)
\* block A (index 0) holds the labels {1, 2} and block B (index 1) the label
\* {1}; the offsets are (0, 3); B's 1 reaches the face between the blocks
\* and lies on A's 2 and on nothing else
TwoBlockScenario ==
    /\ DOMAIN subvolumes = PairIndices
    /\ LocalBodies(0) = {1, 2}
    /\ LocalBodies(1) = {1}
    /\ offsets = [i \in PairIndices |-> IF i = 0 THEN 0 ELSE 3]
    /\ 1 \in eligible_bodies(subvolumes[0], subvolumes[1],
                             BoundaryOf(<<0, 1>>, 0), BoundaryOf(<<0, 1>>, 1))
    /\ \A p \in DOMAIN BoundaryOf(<<0, 1>>, 1).data :
          BoundaryOf(<<0, 1>>, 1).data[p] = 1 => BoundaryOf(<<0, 1>>, 0).data[p] = 2

\* the global labels of subvolume i
GlobalLabels(i) == {offsets[i] + l : l \in 1..max_ids[i]}

\* C11 as stated: in the two-block scenario the only merger is (2, 4), B's
\* label 1 ends as 2 and A is unchanged; for every merged pair the final label
\* is the label of the lower-index block.
C11_LowerKept ==
    tpc = "done" =>
        /\ TwoBlockScenario =>
              /\ merge_list = <<<<2, 4>>>>
              /\ relabeled[0].data = seg_vols[0].data
              /\ \A p \in DOMAIN seg_vols[1].data :
                    relabeled[1].data[p] = IF seg_vols[1].data[p] = 1 THEN 2 ELSE 0
        /\ \A M \in {PairsAsDict(master_merge_list)} :
           \A m \in EmittedMergers :
              Rep(M, m[1]) \in GlobalLabels(0) /\ Rep(M, m[2]) = Rep(M, m[1])

\* C11 (amended): in the two-block scenario the only merger is (2, 4), A's
\* label 2 ends as 4, A's label 1 stays 1 and B's label 1 ends as its global
\* label 4; for every merged pair of two blocks the final label is a global
\* label of the higher-index block.
C11_HigherKept ==
    tpc = "done" =>
        /\ TwoBlockScenario =>
              /\ merge_list = <<<<2, 4>>>>
              /\ \A p \in DOMAIN seg_vols[0].data :
                    relabeled[0].data[p] =
                        IF seg_vols[0].data[p] = 2 THEN 4 ELSE seg_vols[0].data[p]
              /\ \A p \in DOMAIN seg_vols[1].data :
                    relabeled[1].data[p] = IF seg_vols[1].data[p] = 1 THEN 4 ELSE 0
        /\ \A M \in {PairsAsDict(master_merge_list)} :
           \A m \in EmittedMergers :
              Rep(M, m[2]) \in GlobalLabels(1) /\ Rep(M, m[1]) = Rep(M, m[2])

\* stitch has completed on the two-block scenario
C11_Witness == tpc = "done" /\ TwoBlockScenario

(***************************************************************************)
(* Malformed boundary groups.                                              *)
(***************************************************************************)
\* the boundary keys grouped with a number of contributions other than two
MalformedKeys ==
    {key \in BoundaryKeys(boundary_arrays) :
        Cardinality(GroupPlaces(boundary_arrays, key)) # 2}

\* C12: when a boundary key is grouped with a number of contributions other
\* than two, stitch gets no further than the stitcher tasks: no stitcher
\* result exists for that key, the merge list is never collected, the
\* equivalence map is never built and no relabeled subvolume exists; the only
\* way on is the error.
C12_MalformedGroupAborts ==
    (tpc # "extract" /\ MalformedKeys # {}) =>
        /\ tpc \in {"stitch", "error"}
        /\ MalformedKeys \cap DOMAIN subvolume_mappings = {}
        /\ merge_list = <<>>
        /\ body1body2 = EmptyDict
        /\ master_merge_list = {}
        /\ relabeled = EmptyDict

\* stitch has ended in the error on a boundary key with three contributions
C12_Witness ==
    /\ tpc = "error"
    /\ \E key \in BoundaryKeys(boundary_arrays) :
          Cardinality(GroupPlaces(boundary_arrays, key)) = 3

(***************************************************************************)
(* The order of offset assignment.                                         *)
(***************************************************************************)
RECURSIVE SumOver(_, _)
\* the sum of f over a finite set
SumOver(S, f) ==
    IF S = {} THEN 0 ELSE LET x == CHOOSE x \in S : TRUE IN f[x] + SumOver(S \ {x}, f)

\* the subvolumes processed so far by the offset loop
NumProcessed == offset_pos

\* C13 as stated: whatever the order of delivery, the subvolume of smallest
\* index gets offset 0 and every other the sum of max_id over the subvolumes
\* of smaller index.
C13_IndexOrder ==
    tpc = "extract" =>
        \A i \in DOMAIN offsets :
            offsets[i] = SumOver({j \in DOMAIN offsets : j < i}, max_ids)

\* C13 (amended): the subvolume delivered first gets offset 0 and every other
\* the sum of max_id over the subvolumes delivered before it.
C13_DeliveryOrder ==
    \A n \in 1..NumProcessed :
        offsets[delivery[n]] = SumOver({delivery[m] : m \in 1..(n - 1)}, max_ids)

\* the loop is over, the subvolumes came out of index order and the sums over
\* the two orders differ for some subvolume
C13_Witness ==
    /\ tpc = "extract"
    /\ delivery # SortedSeq(DOMAIN offsets)
    /\ \E i \in DOMAIN offsets :
          offsets[i] # SumOver({j \in DOMAIN offsets : j < i}, max_ids)

\* C14 as stated: for every pair of consecutively processed subvolumes the
\* offset of the later is greater than the offset of the earlier.
C14_StrictlyIncreasing ==
    \A n \in 1..(NumProcessed - 1) :
        offsets[delivery[n + 1]] > offsets[delivery[n]]

\* C14 (amended): for every pair of consecutively processed subvolumes the
\* offset of the later is the offset of the earlier plus the earlier's max_id:
\* never smaller, and greater exactly when that max_id is not 0.
C14_NonDecreasing ==
    \A n \in 1..(NumProcessed - 1) :
        /\ offsets[delivery[n + 1]] = offsets[delivery[n]] + max_ids[delivery[n]]
        /\ offsets[delivery[n + 1]] >= offsets[delivery[n]]
        /\ offsets[delivery[n + 1]] > offsets[delivery[n]] <=> max_ids[delivery[n]] # 0

\* the loop is over and a subvolume without labels was followed by one with
\* the same offset
C14_Witness ==
    /\ tpc = "extract"
    /\ \E n \in 1..(NumProcessed - 1) :
          /\ max_ids[delivery[n]] = 0
          /\ offsets[delivery[n + 1]] = offsets[delivery[n]]
    /\ \E n \in 1..(NumProcessed - 1) : max_ids[delivery[n]] # 0

(***************************************************************************)
(* Properties of contingency_table and row_argmax.                         *)
(***************************************************************************)
RECURSIVE SumSeq(_)
\* the sum of a sequence of numbers
SumSeq(q) == IF q = <<>> THEN 0 ELSE Head(q) + SumSeq(Tail(q))

\* table[a, b] of an ndarray or of a coo_matrix (what toarray() gives)
TableEntry(table, a, b) ==
    IF IsNdarray(table)
    THEN table.array[<<a, b>>]
    ELSE SumOver({i \in 1..Len(table.data) : table.row[i] = a /\ table.col[i] = b},
                 table.data)

\* the number of positions where vol1 is a and vol2 is b
Overlap(a, b) ==
    Cardinality({p \in DOMAIN h_vol1 : h_vol1[p] = a /\ h_vol2[p] = b})

\* the table of the other representation for the same volumes
OtherTable ==
    IF h_sparse THEN contingency_table_dense(h_vol1, h_itemsize1, h_vol2, h_itemsize2)
    ELSE contingency_table(h_vol1, h_itemsize1, h_vol2, h_itemsize2)

\* contingency_table has returned a table for two volumes of one shape
TableBuilt ==
    /\ h_pc \in {"table", "argmax"}
    /\ DOMAIN h_vol1 = DOMAIN h_vol2

\* C15: for volumes of equal shape, table[a, b] is the number of positions
\* where vol1 is a and vol2 is b; so the sum of row a is the voxel count of a
\* in vol1, the sum of column b the voxel count of b in vol2, and the sparse
\* and the dense table agree entry by entry.
C15_TableCounts ==
    TableBuilt =>
        \A O \in {OtherTable} :
           /\ h_table.shape = <<1 + SetMax(Range(h_vol1)), 1 + SetMax(Range(h_vol2))>>
           /\ O.shape = h_table.shape
           /\ \A a \in 0..(h_table.shape[1] - 1) : \A b \in 0..(h_table.shape[2] - 1) :
                 /\ TableEntry(h_table, a, b) = Overlap(a, b)
                 /\ TableEntry(h_table, a, b) = TableEntry(O, a, b)
           /\ \A a \in 0..(h_table.shape[1] - 1) :
                 SumSeq([b \in 1..h_table.shape[2] |-> TableEntry(h_table, a, b - 1)])
                     = Cardinality({p \in DOMAIN h_vol1 : h_vol1[p] = a})
           /\ \A b \in 0..(h_table.shape[2] - 1) :
                 SumSeq([a \in 1..h_table.shape[1] |-> TableEntry(h_table, a - 1, b)])
                     = Cardinality({p \in DOMAIN h_vol2 : h_vol2[p] = b})

\* C16: contingency_table raises, and returns no table, for every pair of
\* volumes whose shapes differ, whatever their voxel counts.
C16_ShapeMismatchRaises ==
    (h_pc \in {"table", "argmax", "error"} /\ ShapeOf(h_vol1) # ShapeOf(h_vol2)) =>
        h_pc = "error" /\ h_table = EmptyDict

\* the columns of a row of the table that hold the greatest count of the row
GreatestColumns(table, r) ==
    {c \in 0..(table.shape[2] - 1) :
        \A d \in 0..(table.shape[2] - 1) : TableEntry(table, r, d) <= TableEntry(table, r, c)}

\* the id that labels_split gives to a piece of the input
SplitId(P) == labels_split[CHOOSE p \in P : TRUE]

\* C17: for a table built by contingency_table, sparse or dense, row_argmax
\* gives for every row the lowest of the columns that hold the greatest count
\* of the row; and of the pieces of one body the piece that keeps the original
\* label is, among those of the greatest voxel count, the one of lowest split id.
C17_ArgmaxLowestTie ==
    /\ h_pc = "argmax" =>
          /\ DOMAIN h_argmax = 0..(h_table.shape[1] - 1)
          /\ \A r \in DOMAIN h_argmax :
                h_argmax[r] = SetMin(GreatestColumns(h_table, r))
    /\ spc = "done" =>
          \A PS \in {InputPieces} :
             \A v \in SplitLabels(PS) : \A PV \in {PiecesOfLabel(PS, v)} :
                \A P \in {Q \in PV : PieceHas(Q, v)} : \A Q \in PV \ {P} :
                    \/ Cardinality(Q) < Cardinality(P)
                    \/ Cardinality(Q) = Cardinality(P) /\ SplitId(Q) > SplitId(P)

\* split_disconnected_bodies has returned for a body whose two greatest
\* pieces have the same voxel count
C17_Witness ==
    /\ spc = "done"
    /\ \E PS \in {InputPieces} :
       \E v \in SplitLabels(PS) : \E P, Q \in PiecesOfLabel(PS, v) :
          /\ P # Q
          /\ Cardinality(P) = Cardinality(Q)
          /\ PieceHas(P, v)
          /\ \A T \in PiecesOfLabel(PS, v) : Cardinality(T) <= Cardinality(P)

(***************************************************************************)
(* Properties of compose_mappings and reverse_dict.                        *)
(***************************************************************************)
RECURSIVE Reached(_, _)
\* the values reached from the keys of ms[1] through the first n mappings
Reached(ms, n) ==
    IF n = 1 THEN Range(ms[1])
    ELSE {ms[n][v] : v \in Reached(ms, n - 1) \cap DOMAIN ms[n]}

RECURSIVE Through(_, _, _)
\* the value k ends at through the mappings i, i + 1, ... of ms
Through(ms, i, k) == IF i > Len(ms) THEN k ELSE Through(ms, i + 1, ms[i][k])

\* C18: compose_mappings raises exactly when a value reached from a key of
\* the first mapping through the first n mappings is no key of mapping n + 1,
\* or when it is given no mapping at all; otherwise the result has the keys of
\* the first mapping and sends each key through all the mappings in turn.
C18_ComposeChain ==
    /\ h_pc \in {"composed", "compose_raised"} =>
          (h_pc = "compose_raised" <=>
              \/ Len(h_dicts) = 0
              \/ \E n \in 1..(Len(h_dicts) - 1) :
                    ~(Reached(h_dicts, n) \subseteq DOMAIN h_dicts[n + 1]))
    /\ h_pc = "compose_raised" => h_result = EmptyDict
    /\ h_pc = "composed" =>
          /\ DOMAIN h_result = DOMAIN h_dicts[1]
          /\ \A k \in DOMAIN h_result : h_result[k] = Through(h_dicts, 1, k)

\* compose_mappings of three mappings has raised at the third: the first two
\* compose, and a value they reach is no key of the third
C18_Witness ==
    /\ h_pc = "compose_raised"
    /\ Len(h_dicts) = 3
    /\ Range(h_dicts[1]) \subseteq DOMAIN h_dicts[2]
    /\ \E k \in DOMAIN h_dicts[1] : h_dicts[2][h_dicts[1][k]] \notin DOMAIN h_dicts[3]

\* C19: reverse_dict raises exactly when two keys of d share a value; for an
\* injective d it returns v -> k for every k -> v of d, and reversing the
\* result gives d back.
C19_ReverseInjective ==
    /\ h_pc \in {"reversed", "restored", "reverse_raised"} =>
          (h_pc = "reverse_raised" <=>
              \E j, k \in DOMAIN h_dicts[1] : j # k /\ h_dicts[1][j] = h_dicts[1][k])
    /\ h_pc = "reverse_raised" => h_result = EmptyDict
    /\ h_pc = "reversed" =>
          /\ DOMAIN h_result = Range(h_dicts[1])
          /\ \A k \in DOMAIN h_dicts[1] : h_result[h_dicts[1][k]] = k
    /\ h_pc = "restored" => h_result = h_dicts[1]

\* a dict that swaps two keys was reversed twice
C19_Witness ==
    /\ h_pc = "restored"
    /\ \E j, k \in DOMAIN h_dicts[1] :
          j # k /\ h_dicts[1][j] = k /\ h_dicts[1][k] = j

(***************************************************************************)
(* The order in which the merge lists arrive.                              *)
(***************************************************************************)
RECURSIVE Reconciled(_, _, _)
\* body1body2 after the reconciliation loop has run over a merge list
Reconciled(b1b2, b2b1, mergers) ==
    IF mergers = <<>> THEN b1b2
    ELSE LET r == merge_step(b1b2, b2b1, Head(mergers))
         IN  Reconciled(r[1], r[2], Tail(mergers))

\* C20: the collected mergers are put in one fixed order before the
\* reconciliation loop, so the final map (the representative of every class
\* included) is the same for every order in which the stitcher results can
\* arrive at the driver.
C20_SameMapAnyOrder ==
    tpc \in {"relabel", "done"} =>
        \A order \in collect_orders(subvolume_mappings) :
            body2body_of(Reconciled(EmptyDict, EmptyDict,
                                    collected_merge_list(subvolume_mappings, order)))
                = master_merge_list

(***************************************************************************)
(* relabel and the master merge list.                                      *)
(***************************************************************************)
\* C21: in the output of a relabel task, a nonzero voxel with input label l
\* of subvolume s carries offset(s) + l when that label is no key of the
\* master merge list, and the value the list gives it when it is a key.
C21_RelabelPassThrough ==
    \A i \in DOMAIN relabeled :
    \A M \in {PairsAsDict(master_merge_list)} :
    \A p \in DOMAIN seg_vols[i].data :
        seg_vols[i].data[p] # 0 =>
            /\ (seg_vols[i].data[p] + offsets[i]) \notin DOMAIN M
                   => relabeled[i].data[p] = seg_vols[i].data[p] + offsets[i]
            /\ (seg_vols[i].data[p] + offsets[i]) \in DOMAIN M
                   => relabeled[i].data[p] = M[seg_vols[i].data[p] + offsets[i]]

\* stitch has completed; a subvolume with a nonzero offset holds a body that
\* is a key of the master merge list and changes its label, and a body that
\* is no key
C21_Witness ==
    /\ tpc = "done"
    /\ \E i \in SvIndices :
          /\ offsets[i] # 0
          /\ \E p, q \in DOMAIN seg_vols[i].data :
                /\ seg_vols[i].data[p] # 0
                /\ seg_vols[i].data[q] # 0
                /\ \E mapping \in master_merge_list :
                      /\ mapping[1] = seg_vols[i].data[p] + offsets[i]
                      /\ mapping[2] # mapping[1]
                /\ \A mapping \in master_merge_list :
                      mapping[1] # seg_vols[i].data[q] + offsets[i]

(***************************************************************************)
(* The stages of stitch.                                                   *)
(***************************************************************************)
\* C22: the reconciliation loop has processed a merger only when every
\* boundary key has the result of its stitcher task and the merge list holds
\* all of these results; a relabel task has run only when the loop has
\* processed every merger of the list and the master merge list is the map it
\* ended with.
C22_StageBarriers ==
    /\ (merger_pos > 0 \/ tpc \in {"reconcile", "relabel", "done"}) =>
          /\ DOMAIN subvolume_mappings = BoundaryKeys(boundary_arrays)
          /\ DOMAIN boundary_arrays = DOMAIN subvolumes
          /\ \E order \in collect_orders(subvolume_mappings) :
                merge_list = collected_merge_list(subvolume_mappings, order)
    /\ (relabeled # EmptyDict \/ tpc \in {"relabel", "done"}) =>
          /\ merger_pos = Len(merge_list)
          /\ master_merge_list = body2body_of(body1body2)
          /\ body1body2 = Reconciled(EmptyDict, EmptyDict, merge_list)

\* a relabel task has run after a reconciliation over the mergers of two
\* stitcher tasks
C22_Witness ==
    /\ relabeled # EmptyDict
    /\ Cardinality({key \in DOMAIN subvolume_mappings :
                       subvolume_mappings[key][2] # <<>>}) >= 2
    /\ Len(merge_list) >= 2

(***************************************************************************)
(* The broadcast values and the tasks.                                     *)
(***************************************************************************)
\* a step of a stitcher task: stitch stays in the stage of the stitcher
\* tasks, or leaves it because the task raised
StitcherTaskStep == tpc = "stitch" /\ tpc' \in {"stitch", "error"}

\* a step of a relabel task
RelabelTaskStep == tpc = "relabel" /\ tpc' = "relabel"

\* a dict grew by at most one key and kept every entry it had
OnlyAdded(old, new) ==
    /\ DOMAIN old \subseteq DOMAIN new
    /\ Cardinality(DOMAIN new \ DOMAIN old) <= 1
    /\ \A k \in DOMAIN old : new[k] = old[k]

\* C23: a stitcher task and a relabel task leave the broadcast offsets and
\* the broadcast master merge list as they are, leave the inputs of stitch and
\* the driver's dicts as they are, and only add their own result.
C23_BroadcastsReadOnly ==
    [][(StitcherTaskStep \/ RelabelTaskStep) =>
          /\ offsets' = offsets
          /\ master_merge_list' = master_merge_list
          /\ UNCHANGED <<subvolumes, seg_vols, max_ids, boundary_arrays,
                         merge_list, body1body2, body2body1>>
          /\ StitcherTaskStep =>
                (relabeled' = relabeled /\ OnlyAdded(subvolume_mappings, subvolume_mappings'))
          /\ RelabelTaskStep =>
                (subvolume_mappings' = subvolume_mappings /\ OnlyAdded(relabeled, relabeled'))]_vars

\* every task has run: the offsets are not all 0, the master merge list is
\* not empty, and a relabeled volume differs from its input
C23_Witness ==
    /\ tpc = "done"
    /\ \E i \in SvIndices : offsets[i] # 0
    /\ master_merge_list # {}
    /\ \E key \in DOMAIN subvolume_mappings : subvolume_mappings[key][2] # <<>>
    /\ \E i \in SvIndices : relabeled[i] # seg_vols[i]

(***************************************************************************)
(* One step of the reconciliation loop.                                    *)
(***************************************************************************)
\* a step of the reconciliation loop
ReconcileTaken == tpc = "reconcile" /\ merger_pos' = merger_pos + 1

\* every label a merge list can name
MergerLabels == UNION {{merge_list[n][1], merge_list[n][2]} : n \in 1..Len(merge_list)}

\* C24: when the loop has processed the merger (a, b), with a1 and b1 the
\* values a and b resolved to before the step: a1 and every label that
\* resolved to a1 now resolve to b1, b1 resolves to itself, and the labels
\* that did not resolve to a1 resolve as before.
C24_SecondEndpointWins ==
    [][ReconcileTaken =>
          \A a1 \in {Rep(body1body2, merge_list[merger_pos + 1][1])} :
          \A b1 \in {Rep(body1body2, merge_list[merger_pos + 1][2])} :
              /\ Rep(body1body2', a1) = b1
              /\ \A x \in MergerLabels :
                    IF Rep(body1body2, x) = a1
                    THEN Rep(body1body2', x) = b1
                    ELSE Rep(body1body2', x) = Rep(body1body2, x)
              /\ Rep(body1body2', b1) = b1]_vars

\* a merger was processed whose first label stood for a class of two or more
\* labels and whose second label had been given another representative, and
\* the whole class went over to that representative
C24_Witness ==
    /\ tpc = "reconcile"
    /\ merger_pos = 3
    /\ \A before \in {Reconciled(EmptyDict, EmptyDict, SubSeq(merge_list, 1, 2))} :
       \A a1 \in {Rep(before, merge_list[3][1])} :
       \A b1 \in {Rep(before, merge_list[3][2])} :
          /\ a1 # merge_list[3][1]
          /\ b1 # merge_list[3][2]
          /\ a1 # b1
          /\ Rep(body1body2, a1) = b1
          /\ Rep(body1body2, merge_list[3][1]) = b1

(***************************************************************************)
(* The merge list of one boundary.                                         *)
(***************************************************************************)
\* the voxels of the overlap region that lie in the interface slab of two
\* subvolumes: at the middle of every axis along which their boxes touch
SlabVoxels(sv1, sv2, shape) ==
    {p \in VoxelsOf(shape) :
        /\ touches(sv1.box.z1, sv1.box.z2, sv2.box.z1, sv2.box.z2) => p[1] = shape[1] \div 2
        /\ touches(sv1.box.y1, sv1.box.y2, sv2.box.y1, sv2.box.y2) => p[2] = shape[2] \div 2
        /\ touches(sv1.box.x1, sv1.box.x2, sv2.box.x1, sv2.box.x2) => p[3] = shape[3] \div 2}

\* the pairs of nonzero labels (l1 of V1, l2 of V2) found at a common voxel
CoOccurring(V1, V2) ==
    {<<V1.data[p], V2.data[p]>> :
        p \in {q \in DOMAIN V1.data : V1.data[q] # 0 /\ V2.data[q] # 0}}

\* C25: the merge list of a boundary key whose two contributions have the
\* same shape holds, once each, the pairs (l1 + offset of the lower index,
\* l2 + offset of the higher index) of nonzero labels found at a common voxel
\* of the overlap region with l2 present in the interface slab of the higher
\* contribution, and nothing else.
C25_MergeListExact ==
    \A key \in DOMAIN subvolume_mappings :
    \A V1 \in {BoundaryOf(key, key[1])} :
    \A V2 \in {BoundaryOf(key, key[2])} :
    \A mergers \in {subvolume_mappings[key][2]} :
        V1.shape = V2.shape =>
            /\ Range(mergers) =
                  {<<c[1] + offsets[key[1]], c[2] + offsets[key[2]]>> :
                      c \in {d \in CoOccurring(V1, V2) :
                                \E p \in SlabVoxels(subvolumes[key[1]], subvolumes[key[2]],
                                                    V2.shape) :
                                    V2.data[p] = d[2]}}
            /\ Cardinality(Range(mergers)) = Len(mergers)

\* a stitcher task returned a merger, with a nonzero offset for the higher
\* index, and left out a pair of labels found at a common voxel because the
\* label of the higher contribution is absent from the slab
C25_Witness ==
    \E key \in DOMAIN subvolume_mappings :
        /\ subvolume_mappings[key][2] # <<>>
        /\ offsets[key[2]] # 0
        /\ \E c \in CoOccurring(BoundaryOf(key, key[1]), BoundaryOf(key, key[2])) :
              <<c[1] + offsets[key[1]], c[2] + offsets[key[2]]>>
                  \notin Range(subvolume_mappings[key][2])

(***************************************************************************)
(* The keys of extract_boundaries.                                         *)
(***************************************************************************)
\* C26: the boundary_array of a subvolume has one entry for each partner of
\* its local_regions, in their order, keyed by (the smaller, the greater) of
\* its own index and the partner's; two subvolumes that list each other give
\* their entries for that boundary the same key, and no key has a first
\* component above its second.
C26_BoundaryKeys ==
    /\ \A i \in DOMAIN boundary_arrays :
          /\ Len(boundary_arrays[i]) = Len(subvolumes[i].local_regions)
          /\ \A n \in 1..Len(boundary_arrays[i]) :
             \A j \in {subvolumes[i].local_regions[n][1]} :
                /\ boundary_arrays[i][n][1] = <<Min2(i, j), Max2(i, j)>>
                /\ boundary_arrays[i][n][1][1] <= boundary_arrays[i][n][1][2]
    /\ \A i \in DOMAIN boundary_arrays : \A j \in DOMAIN boundary_arrays :
       \A n \in 1..Len(boundary_arrays[i]) : \A m \in 1..Len(boundary_arrays[j]) :
          (subvolumes[i].local_regions[n][1] = j /\ subvolumes[j].local_regions[m][1] = i)
              => boundary_arrays[i][n][1] = boundary_arrays[j][m][1]

\* every extract_boundaries task has run; a subvolume has a partner of lower
\* and a partner of higher index, and each of them lists it in turn
C26_Witness ==
    /\ DOMAIN boundary_arrays = DOMAIN subvolumes
    /\ \E i \in DOMAIN boundary_arrays :
          /\ Len(boundary_arrays[i]) = 2
          /\ \E n, m \in 1..2 :
                /\ subvolumes[i].local_regions[n][1] < i
                /\ subvolumes[i].local_regions[m][1] > i
          /\ \A n \in 1..2 :
             \E k \in 1..Len(boundary_arrays[subvolumes[i].local_regions[n][1]]) :
                boundary_arrays[subvolumes[i].local_regions[n][1]][k][1]
                    = boundary_arrays[i][n][1]

(***************************************************************************)
(* row_argmax on a coo_matrix and on its dense form.                       *)
(***************************************************************************)
\* M.toarray(): the ndarray in which the stored entries of a position are
\* summed
toarray(table) ==
    [shape |-> table.shape,
     array |-> [ij \in (0..(table.shape[1] - 1)) \X (0..(table.shape[2] - 1)) |->
                  SumOver({i \in 1..Len(table.data) :
                              table.row[i] = ij[1] /\ table.col[i] = ij[2]},
                          table.data)]]

\* C27: for a coo_matrix, whatever the order of its stored entries,
\* row_argmax returns what numpy.argmax returns for its dense form along
\* axis 1: for every row the lowest column that holds the greatest value of
\* the row, 0 for a row without a positive entry.
C27_SparseAsDense ==
    (h_pc = "argmax" /\ ~IsNdarray(h_table)) =>
        h_argmax = numpy_argmax_rows(toarray(h_table))

(***************************************************************************)
(* The classes of the reconciliation and the order of the mergers.         *)
(***************************************************************************)
\* the merge list in another order of its mergers
Reordered(mergers, order) == [n \in 1..Len(mergers) |-> mergers[order[n]]]

\* the classes of a label -> representative map over a set of labels
ClassesOf(M, labels) ==
    {{y \in labels : Rep(M, y) = Rep(M, x)} : x \in labels}

\* C28: the reconciliation loop run over the same mergers in any other order
\* gives the same classes of labels (two labels are in one class when they
\* have the same representative), whether or not it gives the same
\* representatives.
C28_SamePartitionAnyOrder ==
    (tpc = "reconcile" /\ merger_pos = Len(merge_list)) =>
        \A order \in Perms(1..Len(merge_list)) :
            ClassesOf(Reconciled(EmptyDict, EmptyDict, Reordered(merge_list, order)),
                      MergerLabels)
                = ClassesOf(body1body2, MergerLabels)

\* the loop has run over three mergers that join three or more labels into
\* one class, and in another order it ends with another representative
C28_Witness ==
    /\ tpc = "reconcile"
    /\ merger_pos = Len(merge_list)
    /\ Len(merge_list) = 3
    /\ \E C \in ClassesOf(body1body2, MergerLabels) : Cardinality(C) >= 3
    /\ \E order \in Perms(1..Len(merge_list)) :
          Reconciled(EmptyDict, EmptyDict, Reordered(merge_list, order)) # body1body2

(***************************************************************************)
(* The classes of the reconciliation and the chains of mergers.            *)
(***************************************************************************)
\* the mergers the loop has processed
ProcessedMergers == Range(SubSeq(merge_list, 1, merger_pos))

\* C29: after any number of iterations of the loop, two different labels
\* have the same representative only when a chain of processed mergers, each
\* taken in either direction, joins them, and the representative of a label
\* is joined to it by such a chain.
C29_NoSpuriousMerge ==
    tpc = "reconcile" =>
        \A x \in MergerLabels :
        \A C \in {Chained({x}, ProcessedMergers)} :
            /\ Rep(body1body2, x) \in C
            /\ \A y \in MergerLabels \ {x} :
                  Rep(body1body2, y) = Rep(body1body2, x) => y \in C

\* the loop has processed three mergers and holds two classes of two labels
\* each, with different representatives
C29_Witness ==
    /\ tpc = "reconcile"
    /\ merger_pos = 3
    /\ Cardinality({C \in ClassesOf(body1body2, MergerLabels) : Cardinality(C) = 2}) = 2

(***************************************************************************)
(* The order of the two contributions of a boundary.                       *)
(***************************************************************************)
\* C30: the result of a stitcher task is the result of stitcher for either
\* order of arrival of the two contributions of its key: the same mergers
\* with the same offsets, under the lower of the two subvolume indices.
C30_ContributionOrderIrrelevant ==
    \A key \in DOMAIN subvolume_mappings :
        /\ subvolume_mappings[key][1] = Min2(key[1], key[2])
        /\ \A boundary_list \in GroupedBoundaries(boundary_arrays, key) :
           \A r \in {stitcher(key, boundary_list, offsets)} :
              /\ r.ok
              /\ r.sv_index = subvolume_mappings[key][1]
              /\ r.merge_list = subvolume_mappings[key][2]

\* a stitcher task returned mergers for two contributions that differ, with
\* different offsets, and the contributions can arrive in either order
C30_Witness ==
    \E key \in DOMAIN subvolume_mappings :
        /\ subvolume_mappings[key][2] # <<>>
        /\ offsets[key[1]] # offsets[key[2]]
        /\ BoundaryOf(key, key[1]) # BoundaryOf(key, key[2])
        /\ \E b1, b2 \in GroupedBoundaries(boundary_arrays, key) :
              /\ b1[1][1].sv_index < b1[2][1].sv_index
              /\ b2[1][1].sv_index > b2[2][1].sv_index

====
